---- MODULE Spec2Model ----
(***************************************************************************)
(* A model of the Lox implementation in this repository: the scanner of    *)
(* rlox-lexer, the recursive-descent parser, the resolver pass and the     *)
(* tree-walk evaluator with its chain of shared scope frames, driven by    *)
(* run() of rlox-tree-walk.                                                *)
(*                                                                         *)
(* Source text is a TLA+ string; a character is a string of length one.    *)
(* All modelled characters are ASCII, so a character is one byte wide.     *)
(***************************************************************************)
EXTENDS Integers, Sequences, FiniteSets, TLC

VARIABLES
    source,         \* the text handed to run
    scanner,        \* the Scanner struct: source (rest of the text), curr, global_curr, line
    tokens,         \* scan_tokens: `tokens`
    errors,         \* scan_tokens: `errors`
    scan_state,     \* position of scan_tokens: "loop", "Ok", "Err" or "panic"
    parser,         \* the Parser struct: arena, tokens, eof
    parse_stmts,          \* Parser::parse: `stmts`
    parse_errs,           \* Parser::parse: `errs`
    ast_arena,      \* the AstArena handed to run
    program,        \* run: `program`
    var_resolution, \* the depth the resolver gave to each variable expression
    interpreter,    \* the Interpreter handed to run
    pc,             \* Interpreter::interpret: the statement the loop is at
    reported,       \* what the Reporter was given, in order
    run_state,      \* position of run: "scan", "parse", "interpret", or how it ended:
                    \* "Ok", "LexErr", "ParseErr", "RuntimeErr", "abort"
    argv,           \* main: the command line (std::env::args)
    stdin,          \* run_prompt: the lines of standard input and the next one to read
    exit_code,      \* the exit code of the process, -1 while it runs
    chunk,          \* the Chunk under construction or being run: code, constants, lines
    emitted,        \* the instructions written to the chunk so far, in order
    listing,        \* what disassemble_chunk made of the chunk
    vm              \* the VirtualMachine and the position of its run

lexvars == <<scanner, tokens, errors, scan_state>>

parsevars == <<parser, parse_stmts, parse_errs>>

runvars == <<ast_arena, program, var_resolution, interpreter, pc, reported, run_state>>

procvars == <<argv, stdin, exit_code>>

vmvars == <<chunk, emitted, listing, vm>>

vars == <<source, lexvars, parsevars, runvars, procvars, vmvars>>

(***************************************************************************)
(* Bounds of the model.                                                    *)
(***************************************************************************)
\* the longest text of the scanner's specification
MaxSrcLen == 4

\* the longest of the short texts run is given besides the programs
MaxJunkLen == 2

\* the largest reading of the clock
MaxClock == 1

\* the deepest nesting of calls the stack allows
MaxCalls == 3

\* the most turns of one while loop that are followed
MaxLoops == 3

\* LET r == e IN body, written so that e is evaluated once however often
\* body refers to r: the value of the function on {e} that maps r to body
Let(fn) == fn[CHOOSE k \in DOMAIN fn : TRUE]

(***************************************************************************)
(* Characters.                                                             *)
(***************************************************************************)
Digits == "0123456789"
Letters == "abcdefghijklmnopqrstuvwxyzABCDEFGHIJKLMNOPQRSTUVWXYZ"

Min(S) == CHOOSE x \in S : \A y \in S : x <= y

Char(s, i) == SubSeq(s, i, i)

CharsOf(s) == {Char(s, i) : i \in 1..Len(s)}

is_ascii_digit(c) == c \in CharsOf(Digits)

is_alphabetic(c) == c \in CharsOf(Letters)

is_alphanumeric(c) == is_alphabetic(c) \/ is_ascii_digit(c)

\* the number of leading characters of s that satisfy P (Iterator::take_while)
take_while(s, P(_)) ==
    LET bad == {i \in 1..Len(s) : ~P(Char(s, i))}
    IN  IF bad = {} THEN Len(s) ELSE Min(bad) - 1

(***************************************************************************)
(* Tokens, spans and lexing errors.                                        *)
(***************************************************************************)
\* a TokenType: the variant, the text it carries (Identifier, String, and
\* the fraction digits of a Number) and the integer part of a Number
TokenType(ty, s, n) == [ty |-> ty, s |-> s, n |-> n]

Tok(ty) == TokenType(ty, "", 0)

Span(start, end, line_start, line_end) ==
    [start |-> start, end |-> end, line_start |-> line_start, line_end |-> line_end]

Token(ty, span) == [ty |-> ty, span |-> span]

LexingError(span, message) == [span |-> span, message |-> message]

keyword(s) ==
    CASE s = "and" -> "And"
      [] s = "class" -> "Class"
      [] s = "else" -> "Else"
      [] s = "false" -> "False"
      [] s = "for" -> "For"
      [] s = "fun" -> "Fun"
      [] s = "if" -> "If"
      [] s = "nil" -> "Nil"
      [] s = "or" -> "Or"
      [] s = "print" -> "Print"
      [] s = "return" -> "Return"
      [] s = "super" -> "Super"
      [] s = "this" -> "This"
      [] s = "true" -> "True"
      [] s = "var" -> "Var"
      [] s = "while" -> "While"
      [] OTHER -> "None"

(***************************************************************************)
(* str::parse::<f64> on the lexemes the scanner can hand to it.  The text  *)
(* parses when it is digits with at most one '.' and at least one digit;   *)
(* any other character makes the parse fail.                               *)
(***************************************************************************)
f64_parses(s) ==
    /\ \A i \in 1..Len(s) : is_ascii_digit(Char(s, i)) \/ Char(s, i) = "."
    /\ Cardinality({i \in 1..Len(s) : Char(s, i) = "."}) <= 1
    /\ \E i \in 1..Len(s) : is_ascii_digit(Char(s, i))

DigitVal(c) == CHOOSE d \in 0..9 : Char(Digits, d + 1) = c

RECURSIVE ParseInt(_)
ParseInt(s) ==
    IF s = "" THEN 0
    ELSE ParseInt(SubSeq(s, 1, Len(s) - 1)) * 10 + DigitVal(Char(s, Len(s)))

RECURSIVE StripZeros(_)
StripZeros(s) ==
    IF s # "" /\ Char(s, Len(s)) = "0" THEN StripZeros(SubSeq(s, 1, Len(s) - 1)) ELSE s

\* the value of a number lexeme: integer part and fraction digits
f64_parse(s) ==
    LET dots == {i \in 1..Len(s) : Char(s, i) = "."}
        dot  == IF dots = {} THEN Len(s) + 1 ELSE Min(dots)
    IN  [n |-> ParseInt(SubSeq(s, 1, dot - 1)),
         s |-> StripZeros(SubSeq(s, dot + 1, Len(s)))]

(***************************************************************************)
(* Scanner (rlox-lexer/src/scanner.rs).                                    *)
(***************************************************************************)
ScannerNew(src) == [source |-> src, curr |-> 0, global_curr |-> 0, line |-> 1]

curr_span(sc) == SubSeq(sc.source, 1, sc.curr)

rest_span(sc) == SubSeq(sc.source, sc.curr + 1, Len(sc.source))

increment_curr(sc, inc) ==
    [sc EXCEPT !.curr = sc.curr + inc, !.global_curr = sc.global_curr + inc]

make_span(sc) ==
    Span(sc.global_curr - Len(curr_span(sc)), sc.global_curr, sc.line, sc.line)

make_token(sc, ty) == Token(ty, make_span(sc))

\* Option<char>: "" is None
peek(sc) == IF rest_span(sc) = "" THEN "" ELSE Char(rest_span(sc), 1)

peek_nth(sc, n) == IF Len(rest_span(sc)) > n THEN Char(rest_span(sc), n + 1) ELSE ""

\* matches: [hit, sc]
matches(sc, expected) ==
    IF peek(sc) = expected
    THEN [hit |-> TRUE, sc |-> increment_curr(sc, 1)]
    ELSE [hit |-> FALSE, sc |-> sc]

\* the result of a lexeme function: "Some" token type, "Skip" (no token),
\* "Err" (a LexingError) or "Panic" (the process aborts)
ScanRes(res, ty, err, sc) == [res |-> res, ty |-> ty, err |-> err, sc |-> sc]

NoErr == LexingError(Span(0, 0, 0, 0), "")

Some(ty, sc) == ScanRes("Some", ty, NoErr, sc)

Skip(sc) == ScanRes("Skip", Tok("None"), NoErr, sc)

Err(err, sc) == ScanRes("Err", Tok("None"), err, sc)

Panic(sc) == ScanRes("Panic", Tok("None"), NoErr, sc)

IsIdentChar(c) == is_alphanumeric(c) \/ c = "_"

identifier(sc) ==
    LET s1    == increment_curr(sc, take_while(rest_span(sc), IsIdentChar))
        ident == curr_span(s1)
    IN  IF keyword(ident) # "None"
        THEN Some(Tok(keyword(ident)), s1)
        ELSE Some(TokenType("Identifier", ident, 0), s1)

NotQuote(c) == c # "\""

string(sc) ==
    LET n        == take_while(rest_span(sc), NotQuote)
        body     == SubSeq(rest_span(sc), 1, n)
        newlines == Cardinality({i \in 1..n : Char(body, i) = "\n"})
        s1       == [increment_curr(sc, n) EXCEPT !.line = sc.line + newlines]
    IN  IF rest_span(s1) = ""
        THEN Err(LexingError(make_span(s1), "Unterminated string."), s1)
        ELSE LET s2 == increment_curr(s1, 1)
             IN  Some(TokenType("String", SubSeq(curr_span(s2), 2, Len(curr_span(s2)) - 1), 0), s2)

number(sc) ==
    LET s1 == increment_curr(sc, take_while(rest_span(sc), is_ascii_digit))
        s2 == IF peek(s1) = "." /\ peek_nth(s1, 1) # "" /\ is_ascii_digit(peek_nth(s1, 1))
              THEN LET s1a == increment_curr(s1, 1)
                   IN  increment_curr(s1a, take_while(rest_span(s1a), is_ascii_digit))
              ELSE s1
    IN  IF f64_parses(curr_span(s2))
        THEN Some(TokenType("Number", f64_parse(curr_span(s2)).s, f64_parse(curr_span(s2)).n), s2)
        ELSE Panic(s2)

NotNewline(c) == c # "\n"

\* the match on the character c that scan_token has just consumed
lexeme(c, sc) ==
    CASE c = "(" -> Some(Tok("LeftParen"), sc)
      [] c = ")" -> Some(Tok("RightParen"), sc)
      [] c = "{" -> Some(Tok("LeftBrace"), sc)
      [] c = "}" -> Some(Tok("RightBrace"), sc)
      [] c = "," -> Some(Tok("Comma"), sc)
      [] c = "." -> Some(Tok("Dot"), sc)
      [] c = "-" -> Some(Tok("Minus"), sc)
      [] c = "+" -> Some(Tok("Plus"), sc)
      [] c = ";" -> Some(Tok("Semicolon"), sc)
      [] c = "*" -> Some(Tok("Star"), sc)
      [] c = "!" -> IF matches(sc, "=").hit
                    THEN Some(Tok("BangEqual"), matches(sc, "=").sc)
                    ELSE Some(Tok("Bang"), sc)
      [] c = "=" -> IF matches(sc, "=").hit
                    THEN Some(Tok("EqualEqual"), matches(sc, "=").sc)
                    ELSE Some(Tok("Equal"), sc)
      [] c = "<" -> IF matches(sc, "=").hit
                    THEN Some(Tok("LessEqual"), matches(sc, "=").sc)
                    ELSE Some(Tok("Less"), sc)
      [] c = ">" -> IF matches(sc, "=").hit
                    THEN Some(Tok("GreaterEqual"), matches(sc, "=").sc)
                    ELSE Some(Tok("Greater"), sc)
      [] c = "/" -> IF matches(sc, "/").hit
                    THEN LET s1 == matches(sc, "/").sc
                         IN  Skip(increment_curr(s1, take_while(rest_span(s1), NotNewline)))
                    ELSE Some(Tok("Slash"), sc)
      [] c \in {" ", "\r", "\t"} -> Skip(sc)
      [] c = "\n" -> Skip([sc EXCEPT !.line = sc.line + 1])
      [] c = "\"" -> string(sc)
      [] is_ascii_digit(c) -> number(sc)
      [] is_alphabetic(c) \/ c = "_" -> identifier(sc)
      [] OTHER -> Err(LexingError(make_span(sc), "Unexpected character."), sc)

\* scan_token: Ok(Some(ty)) is "Some", Ok(None) is "None", Err(e) is "Err".
\* The start of the next lexeme (source, curr) is set only after a lexeme
\* that did not fail.
RECURSIVE scan_token(_)
scan_token(sc) ==
    IF rest_span(sc) = ""
    THEN ScanRes("None", Tok("None"), NoErr, sc)
    ELSE LET c == Char(rest_span(sc), 1)
             r == lexeme(c, increment_curr(sc, 1))
         IN  IF r.res \in {"Err", "Panic"}
             THEN r
             ELSE LET next == [r.sc EXCEPT !.source = rest_span(r.sc), !.curr = 0]
                  IN  IF r.res = "Skip" THEN scan_token(next) ELSE Some(r.ty, next)

EofToken(sc) == Token(Tok("Eof"), Span(0, 0, sc.line, sc.line))

(***************************************************************************)
(* Values (runtime/object.rs): nil, or a shared Boolean, Number, String,   *)
(* NativeFunction or Function.  n is the truth value (0, 1) or, with d, a  *)
(* number n/d; s is the text of a string or the name of a function, whose  *)
(* declaration is d and whose enclosing environment is e.                  *)
(***************************************************************************)
Object(t, n, s, d, e) == [t |-> t, n |-> n, s |-> s, d |-> d, e |-> e]

ObjNil == Object("nil", 0, "", 0, 0)

ObjBool(b) == Object("bool", IF b THEN 1 ELSE 0, "", 0, 0)

ObjStr(s) == Object("str", 0, s, 0, 0)

(***************************************************************************)
(* Numbers.  An f64 is modelled by the exact fraction n/d in lowest terms  *)
(* with d > 0; d = 0 stands for the values that are not finite (1/0 is     *)
(* +inf, -1/0 is -inf, 0/0 is NaN).  Rounding is not modelled.             *)
(***************************************************************************)
Abs(x) == IF x < 0 THEN -x ELSE x

Sign(x) == IF x < 0 THEN -1 ELSE IF x > 0 THEN 1 ELSE 0

RECURSIVE GCD(_, _)
GCD(a, b) == IF b = 0 THEN a ELSE GCD(b, a % b)

Num(n, d) ==
    IF d = 0 THEN Object("num", Sign(n), "", 0, 0)
    ELSE LET g == GCD(Abs(n), Abs(d))
         IN  Object("num", (Sign(d) * n) \div g, "", Abs(d) \div g, 0)

RECURSIVE Pow10(_)
Pow10(k) == IF k = 0 THEN 1 ELSE 10 * Pow10(k - 1)

\* Object::new(n) for the f64 of a Number token
NumberLiteral(ty) == Num(ty.n * Pow10(Len(ty.s)) + ParseInt(ty.s), Pow10(Len(ty.s)))

IsNaN(o) == o.n = 0 /\ o.d = 0

\* a + b, a - b, a * b, a / b on f64
f64_add(a, b) ==
    IF a.d = 0 /\ b.d = 0 THEN (IF a.n = b.n THEN a ELSE Num(0, 0))
    ELSE IF a.d = 0 THEN a
    ELSE IF b.d = 0 THEN b
    ELSE Num(a.n * b.d + b.n * a.d, a.d * b.d)

f64_neg(a) == Num(-a.n, a.d)

f64_sub(a, b) == f64_add(a, f64_neg(b))

f64_mul(a, b) ==
    IF IsNaN(a) \/ IsNaN(b) THEN Num(0, 0) ELSE Num(a.n * b.n, a.d * b.d)

f64_div(a, b) ==
    IF IsNaN(a) \/ IsNaN(b) \/ (a.d = 0 /\ b.d = 0) THEN Num(0, 0)
    ELSE Num(a.n * b.d * (IF b.n < 0 THEN -1 ELSE 1), a.d * Abs(b.n))

\* f64::partial_cmp: "None" when either is NaN
f64_cmp(a, b) ==
    IF IsNaN(a) \/ IsNaN(b) THEN "None"
    ELSE IF a.d = 0 \/ b.d = 0
         THEN LET x == IF a.d = 0 THEN 2 * a.n ELSE Sign(a.n)
                  y == IF b.d = 0 THEN 2 * b.n ELSE Sign(b.n)
              IN  IF a.d = 0 /\ b.d = 0 /\ a.n = b.n THEN "Equal"
                  ELSE IF x < y \/ (x = y /\ a.d = 0 /\ a.n < 0) \/ (x = y /\ b.d = 0 /\ b.n > 0)
                       THEN "Less" ELSE "Greater"
         ELSE IF a.n * b.d < b.n * a.d THEN "Less"
         ELSE IF a.n * b.d > b.n * a.d THEN "Greater"
         ELSE "Equal"

\* the byte order of the characters that occur in the modelled string values
CharOrder == " 0123456789ABCDEFGHIJKLMNOPQRSTUVWXYZ_abcdefghijklmnopqrstuvwxyz"

CharCode(c) == CHOOSE i \in 1..Len(CharOrder) : Char(CharOrder, i) = c

\* str::cmp: lexicographic by byte
RECURSIVE str_cmp(_, _)
str_cmp(a, b) ==
    IF a = "" /\ b = "" THEN "Equal"
    ELSE IF a = "" THEN "Less"
    ELSE IF b = "" THEN "Greater"
    ELSE IF CharCode(Char(a, 1)) < CharCode(Char(b, 1)) THEN "Less"
    ELSE IF CharCode(Char(a, 1)) > CharCode(Char(b, 1)) THEN "Greater"
    ELSE str_cmp(SubSeq(a, 2, Len(a)), SubSeq(b, 2, Len(b)))

(***************************************************************************)
(* AST arena (parsing/ast.rs, expr.rs, stmt.rs).  Ids are positions in the *)
(* arena; 0 stands for None.                                               *)
(***************************************************************************)
Expr(k, op, a, b, args, name, lit) ==
    [k |-> k, op |-> op, a |-> a, b |-> b, args |-> args, name |-> name, lit |-> lit]

ExprBinary(op, left, right) == Expr("Binary", op, left, right, <<>>, "", ObjNil)

ExprCall(callee, args) == Expr("Call", "", callee, 0, args, "", ObjNil)

ExprGrouping(inner) == Expr("Grouping", "", inner, 0, <<>>, "", ObjNil)

ExprLiteral(lit) == Expr("Literal", "", 0, 0, <<>>, "", lit)

ExprUnary(op, right) == Expr("Unary", op, right, 0, <<>>, "", ObjNil)

ExprVariable(name) == Expr("Variable", "", 0, 0, <<>>, name, ObjNil)

ExprAssign(name, value) == Expr("Assign", "", value, 0, <<>>, name, ObjNil)

ExprLogical(op, left, right) == Expr("Logical", op, left, right, <<>>, "", ObjNil)

Stmt(k, expr, a, b, list, name, params) ==
    [k |-> k, expr |-> expr, a |-> a, b |-> b, list |-> list, name |-> name, params |-> params]

StmtPrint(expr) == Stmt("Print", expr, 0, 0, <<>>, "", <<>>)

StmtExpression(expr) == Stmt("Expression", expr, 0, 0, <<>>, "", <<>>)

StmtVar(ident, initializer) == Stmt("Var", initializer, 0, 0, <<>>, ident, <<>>)

StmtBlock(statements) == Stmt("Block", 0, 0, 0, statements, "", <<>>)

StmtIf(condition, then_branch, else_branch) ==
    Stmt("If", condition, then_branch, else_branch, <<>>, "", <<>>)

StmtReturn(expr) == Stmt("Return", expr, 0, 0, <<>>, "", <<>>)

StmtWhile(condition, body) == Stmt("While", condition, body, 0, <<>>, "", <<>>)

StmtFunction(name, params, body) == Stmt("Function", 0, 0, 0, body, name, params)

AstArenaDefault == [expressions |-> <<>>, statements |-> <<>>]

(***************************************************************************)
(* Parser (parsing/parser.rs): tokens is the VecDeque of the tokens before *)
(* Eof, eof the Eof token.  A parse function yields Ok(v) or Err(err)      *)
(* together with the parser as the call leaves it.                         *)
(***************************************************************************)
ParserNew(arena, toks) ==
    [arena |-> arena, tokens |-> SubSeq(toks, 1, Len(toks) - 1), eof |-> toks[Len(toks)]]

ParsingError(span, message, should_sync) ==
    [span |-> span, message |-> message, should_sync |-> should_sync]

NoParsingError == ParsingError(Span(0, 0, 0, 0), "", FALSE)

POk(v, p) == [ok |-> TRUE, v |-> v, err |-> NoParsingError, p |-> p]

PErr(err, p) == [ok |-> FALSE, v |-> 0, err |-> err, p |-> p]

\* TokenType::as_str for the variants that carry no text
as_str(ty) ==
    CASE ty = "LeftParen" -> "("
      [] ty = "RightParen" -> ")"
      [] ty = "LeftBrace" -> "{{"
      [] ty = "RightBrace" -> "}}"
      [] ty = "Comma" -> ","
      [] ty = "Dot" -> "."
      [] ty = "Minus" -> "-"
      [] ty = "Plus" -> "+"
      [] ty = "Semicolon" -> ";"
      [] ty = "Slash" -> "/"
      [] ty = "Star" -> "*"
      [] ty = "Bang" -> "!"
      [] ty = "BangEqual" -> "!="
      [] ty = "Equal" -> "="
      [] ty = "EqualEqual" -> "=="
      [] ty = "Greater" -> ">"
      [] ty = "GreaterEqual" -> ">="
      [] ty = "Less" -> "<"
      [] ty = "LessEqual" -> "<="
      [] ty = "And" -> "and"
      [] ty = "Class" -> "class"
      [] ty = "Else" -> "else"
      [] ty = "False" -> "false"
      [] ty = "Fun" -> "fun"
      [] ty = "For" -> "for"
      [] ty = "If" -> "if"
      [] ty = "Nil" -> "nil"
      [] ty = "Or" -> "or"
      [] ty = "Print" -> "print"
      [] ty = "Return" -> "return"
      [] ty = "Super" -> "super"
      [] ty = "This" -> "this"
      [] ty = "True" -> "true"
      [] ty = "Var" -> "var"
      [] ty = "While" -> "while"
      [] ty = "Eof" -> "end of file"
      [] OTHER -> ty

\* ParsingError::custom
custom(token, message) == ParsingError(token.span, message, TRUE)

\* ParsingError::expected
expected(what, found) ==
    ParsingError(found.span,
                 "Expected '" \o what \o "', found '" \o as_str(found.ty.ty) \o "'", TRUE)

alloc_expr(p, expr) ==
    [id |-> Len(p.arena.expressions) + 1,
     p  |-> [p EXCEPT !.arena.expressions = Append(@, expr)]]

alloc_stmt(p, stmt) ==
    [id |-> Len(p.arena.statements) + 1,
     p  |-> [p EXCEPT !.arena.statements = Append(@, stmt)]]

alloc_expr_vec(p, exprs) ==
    [ids |-> [i \in 1..Len(exprs) |-> Len(p.arena.expressions) + i],
     p   |-> [p EXCEPT !.arena.expressions = @ \o exprs]]

alloc_stmt_vec(p, stmts) ==
    [ids |-> [i \in 1..Len(stmts) |-> Len(p.arena.statements) + i],
     p   |-> [p EXCEPT !.arena.statements = @ \o stmts]]

\* Option<&TokenType>: "" is None
peek_type(p) == IF p.tokens = <<>> THEN "" ELSE p.tokens[1].ty.ty

\* the token peek() would unwrap_or(&self.eof)
peek_or_eof(p) == IF p.tokens = <<>> THEN p.eof ELSE p.tokens[1]

\* tokens.pop_front() on a deque that is not empty
pop_front(p) == [p EXCEPT !.tokens = Tail(@)]

\* matches / matches_with: hit tells whether a token was taken
matches_with(p, types) ==
    IF peek_type(p) \in types
    THEN [hit |-> TRUE, tok |-> p.tokens[1], p |-> pop_front(p)]
    ELSE [hit |-> FALSE, tok |-> p.eof, p |-> p]

\* consume / consume_with: the token is taken also when it does not match
consume_with(p, types, expected_item) ==
    IF p.tokens = <<>>
    THEN PErr(expected(expected_item, p.eof), p)
    ELSE IF p.tokens[1].ty.ty \in types
         THEN POk(p.tokens[1], pop_front(p))
         ELSE PErr(expected(expected_item, p.tokens[1]), pop_front(p))

consume(p, type) == consume_with(p, {type}, as_str(type))

MaxArity == 255

RECURSIVE declaration(_), function(_), parameters(_), var_decl(_), block_stmt(_),
          statement(_), block(_), block_loop(_, _), expression_stmt(_), print_stmt(_),
          return_stmt(_), while_stmt(_), for_initializer(_), for_stmt(_), if_stmt(_),
          expression(_), assignment(_), binary(_, _), binary_loop(_, _, _), unary(_),
          call(_), call_loop(_, _), arguments(_), grouping(_), primary(_),
          comma_separated(_, _, _)

\* declaration refusing a closing brace without consuming it, as an error
\* that does not synchronize
declaration_refusing(p) ==
    CASE peek_type(p) = "Fun" -> function(p)
      [] peek_type(p) = "Var" -> var_decl(p)
      [] peek_type(p) = "RightBrace" ->
            PErr(ParsingError(p.tokens[1].span, "Expected declaration.", FALSE), p)
      [] OTHER -> statement(p)

declaration(p) ==
    CASE peek_type(p) = "Fun" -> function(p)
      [] peek_type(p) = "Var" -> var_decl(p)
      [] OTHER -> statement(p)

function(p) ==
    Let([r1 \in {consume(p, "Fun")} |->
    IF ~r1.ok THEN r1 ELSE
    Let([r2 \in {consume_with(r1.p, {"Identifier"}, "function name")} |->
    IF ~r2.ok THEN r2 ELSE
    Let([r3 \in {consume(r2.p, "LeftParen")} |->
    IF ~r3.ok THEN r3 ELSE
    Let([r4 \in {parameters(r3.p)} |->
    IF ~r4.ok THEN r4 ELSE
    Let([r5 \in {consume(r4.p, "RightParen")} |->
    IF ~r5.ok THEN r5 ELSE
    Let([r6 \in {block(r5.p)} |->
    IF ~r6.ok THEN r6 ELSE
    LET body == alloc_stmt_vec(r6.p, r6.v)
    IN  POk(StmtFunction(r2.v.ty.s, r4.v, body.ids), body.p)
    ])])])])])])

parameters(p) ==
    IF peek_type(p) \in {"RightParen", ""}
    THEN POk(<<>>, p)
    ELSE Let([r \in {comma_separated(p, "parameter", <<>>)} |->
         IF ~r.ok THEN r ELSE
         IF Len(r.v) > MaxArity
         THEN PErr(custom(peek_or_eof(r.p), "Can't have more than 255 parameters."), r.p)
         ELSE POk([i \in 1..Len(r.v) |-> r.v[i].ty.s], r.p)
    ])

var_decl(p) ==
    Let([r1 \in {consume(p, "Var")} |->
    IF ~r1.ok THEN r1 ELSE
    Let([r2 \in {consume_with(r1.p, {"Identifier"}, "identifier")} |->
    IF ~r2.ok THEN r2 ELSE
    Let([m \in {matches_with(r2.p, {"Equal"})} |->
    Let([r3 \in {IF m.hit THEN expression(m.p) ELSE POk(0, m.p)} |->
    IF ~r3.ok THEN r3 ELSE
    Let([init \in {IF m.hit THEN alloc_expr(r3.p, r3.v) ELSE [id |-> 0, p |-> r3.p]} |->
    Let([r4 \in {consume(init.p, "Semicolon")} |->
    IF ~r4.ok THEN r4 ELSE POk(StmtVar(r2.v.ty.s, init.id), r4.p)
    ])])])])])])

block_stmt(p) ==
    Let([r \in {block(p)} |->
    IF ~r.ok THEN r ELSE
    LET statements == alloc_stmt_vec(r.p, r.v)
    IN  POk(StmtBlock(statements.ids), statements.p)
    ])

statement(p) ==
    CASE peek_type(p) = "If" -> if_stmt(p)
      [] peek_type(p) = "Print" -> print_stmt(p)
      [] peek_type(p) = "Return" -> return_stmt(p)
      [] peek_type(p) = "While" -> while_stmt(p)
      [] peek_type(p) = "For" -> for_stmt(p)
      [] peek_type(p) = "LeftBrace" -> block_stmt(p)
      [] OTHER -> expression_stmt(p)

block(p) ==
    Let([r1 \in {consume(p, "LeftBrace")} |->
    IF ~r1.ok THEN r1 ELSE
    Let([r2 \in {block_loop(r1.p, <<>>)} |->
    IF ~r2.ok THEN r2 ELSE
    Let([r3 \in {consume(r2.p, "RightBrace")} |->
    IF ~r3.ok THEN r3 ELSE POk(r2.v, r3.p)
    ])])])

\* while self.peek().is_some_and(|t| t.ty != RightBrace) { statements.push(self.declaration()?) }
block_loop(p, statements) ==
    IF peek_type(p) \in {"", "RightBrace"}
    THEN POk(statements, p)
    ELSE Let([r \in {declaration(p)} |->
         IF ~r.ok THEN r ELSE block_loop(r.p, Append(statements, r.v))
    ])

expression_stmt(p) ==
    Let([r1 \in {expression(p)} |->
    IF ~r1.ok THEN r1 ELSE
    Let([e \in {alloc_expr(r1.p, r1.v)} |->
    Let([r2 \in {consume(e.p, "Semicolon")} |->
    IF ~r2.ok THEN r2 ELSE POk(StmtExpression(e.id), r2.p)
    ])])])

print_stmt(p) ==
    Let([r0 \in {consume(p, "Print")} |->
    IF ~r0.ok THEN r0 ELSE
    Let([r1 \in {expression(r0.p)} |->
    IF ~r1.ok THEN r1 ELSE
    Let([e \in {alloc_expr(r1.p, r1.v)} |->
    Let([r2 \in {consume(e.p, "Semicolon")} |->
    IF ~r2.ok THEN r2 ELSE POk(StmtPrint(e.id), r2.p)
    ])])])])

return_stmt(p) ==
    Let([r0 \in {consume(p, "Return")} |->
    IF ~r0.ok THEN r0 ELSE
    Let([has \in {peek_type(r0.p) # "Semicolon"} |->
    Let([r1 \in {IF has THEN expression(r0.p) ELSE POk(0, r0.p)} |->
    IF ~r1.ok THEN r1 ELSE
    Let([e \in {IF has THEN alloc_expr(r1.p, r1.v) ELSE [id |-> 0, p |-> r1.p]} |->
    Let([r2 \in {consume(e.p, "Semicolon")} |->
    IF ~r2.ok THEN r2 ELSE POk(StmtReturn(e.id), r2.p)
    ])])])])])

while_stmt(p) ==
    Let([r0 \in {consume(p, "While")} |->
    IF ~r0.ok THEN r0 ELSE
    Let([r1 \in {consume(r0.p, "LeftParen")} |->
    IF ~r1.ok THEN r1 ELSE
    Let([r2 \in {expression(r1.p)} |->
    IF ~r2.ok THEN r2 ELSE
    Let([condition \in {alloc_expr(r2.p, r2.v)} |->
    Let([r3 \in {consume(condition.p, "RightParen")} |->
    IF ~r3.ok THEN r3 ELSE
    Let([r4 \in {statement(r3.p)} |->
    IF ~r4.ok THEN r4 ELSE
    LET body == alloc_stmt(r4.p, r4.v)
    IN  POk(StmtWhile(condition.id, body.id), body.p)
    ])])])])])])

\* the initializer clause of a for statement
for_initializer(p) ==
    CASE peek_type(p) = "Semicolon" -> consume(p, "Semicolon")
      [] peek_type(p) = "Var" -> var_decl(p)
      [] OTHER -> expression_stmt(p)

\* for_stmt putting the increment in front of the body
for_stmt_increment_first(p) ==
    Let([r0 \in {consume(p, "For")} |->
    IF ~r0.ok THEN r0 ELSE
    Let([r1 \in {consume(r0.p, "LeftParen")} |->
    IF ~r1.ok THEN r1 ELSE
    Let([hasInit \in {peek_type(r1.p) # "Semicolon"} |->
    Let([r2 \in {for_initializer(r1.p)} |->
    IF ~r2.ok THEN r2 ELSE
    Let([initialization \in {IF hasInit THEN alloc_stmt(r2.p, r2.v)
                             ELSE [id |-> 0, p |-> r2.p]} |->
    Let([hasCond \in {peek_type(initialization.p) # "Semicolon"} |->
    Let([r3 \in {IF hasCond THEN expression(initialization.p)
                 ELSE POk(0, initialization.p)} |->
    IF ~r3.ok THEN r3 ELSE
    Let([cond \in {IF hasCond THEN alloc_expr(r3.p, r3.v) ELSE [id |-> 0, p |-> r3.p]} |->
    Let([r4 \in {consume(cond.p, "Semicolon")} |->
    IF ~r4.ok THEN r4 ELSE
    Let([hasInc \in {peek_type(r4.p) # "RightParen"} |->
    Let([r5 \in {IF hasInc THEN expression(r4.p) ELSE POk(0, r4.p)} |->
    IF ~r5.ok THEN r5 ELSE
    Let([r6 \in {consume(r5.p, "RightParen")} |->
    IF ~r6.ok THEN r6 ELSE
    Let([r7 \in {statement(r6.p)} |->
    IF ~r7.ok THEN r7 ELSE
    Let([body0 \in {alloc_stmt(r7.p, r7.v)} |->
    \* the increment and the body become a block
    Let([inc \in {alloc_expr(body0.p, r5.v)} |->
    Let([incS \in {alloc_stmt(inc.p, StmtExpression(inc.id))} |->
    Let([blk \in {alloc_stmt(incS.p, StmtBlock(<<incS.id, body0.id>>))} |->
    Let([body \in {IF hasInc THEN blk ELSE body0} |->
    \* an omitted condition becomes the literal true
    Let([condition \in {IF hasCond THEN [id |-> cond.id, p |-> body.p]
                        ELSE alloc_expr(body.p, ExprLiteral(ObjBool(TRUE)))} |->
    Let([while \in {StmtWhile(condition.id, body.id)} |->
    Let([whileS \in {alloc_stmt(condition.p, while)} |->
    IF hasInit
    THEN POk(StmtBlock(<<initialization.id, whileS.id>>), whileS.p)
    ELSE POk(while, condition.p)
    ])])])])])])])])])])])])])])])])])])])])])

for_stmt(p) ==
    Let([r0 \in {consume(p, "For")} |->
    IF ~r0.ok THEN r0 ELSE
    Let([r1 \in {consume(r0.p, "LeftParen")} |->
    IF ~r1.ok THEN r1 ELSE
    Let([hasInit \in {peek_type(r1.p) # "Semicolon"} |->
    Let([r2 \in {for_initializer(r1.p)} |->
    IF ~r2.ok THEN r2 ELSE
    Let([initialization \in {IF hasInit THEN alloc_stmt(r2.p, r2.v)
                             ELSE [id |-> 0, p |-> r2.p]} |->
    Let([hasCond \in {peek_type(initialization.p) # "Semicolon"} |->
    Let([r3 \in {IF hasCond THEN expression(initialization.p)
                 ELSE POk(0, initialization.p)} |->
    IF ~r3.ok THEN r3 ELSE
    Let([cond \in {IF hasCond THEN alloc_expr(r3.p, r3.v) ELSE [id |-> 0, p |-> r3.p]} |->
    Let([r4 \in {consume(cond.p, "Semicolon")} |->
    IF ~r4.ok THEN r4 ELSE
    Let([hasInc \in {peek_type(r4.p) # "RightParen"} |->
    Let([r5 \in {IF hasInc THEN expression(r4.p) ELSE POk(0, r4.p)} |->
    IF ~r5.ok THEN r5 ELSE
    Let([r6 \in {consume(r5.p, "RightParen")} |->
    IF ~r6.ok THEN r6 ELSE
    Let([r7 \in {statement(r6.p)} |->
    IF ~r7.ok THEN r7 ELSE
    Let([body0 \in {alloc_stmt(r7.p, r7.v)} |->
    \* the body and the increment become a block
    Let([inc \in {alloc_expr(body0.p, r5.v)} |->
    Let([incS \in {alloc_stmt(inc.p, StmtExpression(inc.id))} |->
    Let([blk \in {alloc_stmt(incS.p, StmtBlock(<<body0.id, incS.id>>))} |->
    Let([body \in {IF hasInc THEN blk ELSE body0} |->
    \* an omitted condition becomes the literal true
    Let([condition \in {IF hasCond THEN [id |-> cond.id, p |-> body.p]
                        ELSE alloc_expr(body.p, ExprLiteral(ObjBool(TRUE)))} |->
    Let([while \in {StmtWhile(condition.id, body.id)} |->
    Let([whileS \in {alloc_stmt(condition.p, while)} |->
    IF hasInit
    THEN POk(StmtBlock(<<initialization.id, whileS.id>>), whileS.p)
    ELSE POk(while, condition.p)
    ])])])])])])])])])])])])])])])])])])])])])

if_stmt(p) ==
    Let([r0 \in {consume(p, "If")} |->
    IF ~r0.ok THEN r0 ELSE
    Let([r1 \in {consume(r0.p, "LeftParen")} |->
    IF ~r1.ok THEN r1 ELSE
    Let([r2 \in {expression(r1.p)} |->
    IF ~r2.ok THEN r2 ELSE
    Let([condition \in {alloc_expr(r2.p, r2.v)} |->
    Let([r3 \in {consume(condition.p, "RightParen")} |->
    IF ~r3.ok THEN r3 ELSE
    Let([r4 \in {statement(r3.p)} |->
    IF ~r4.ok THEN r4 ELSE
    Let([then_branch \in {alloc_stmt(r4.p, r4.v)} |->
    Let([m \in {matches_with(then_branch.p, {"Else"})} |->
    Let([r5 \in {IF m.hit THEN statement(m.p) ELSE POk(0, m.p)} |->
    IF ~r5.ok THEN r5 ELSE
    LET else_branch == IF m.hit THEN alloc_stmt(r5.p, r5.v) ELSE [id |-> 0, p |-> r5.p]
    IN  POk(StmtIf(condition.id, then_branch.id, else_branch.id), else_branch.p)
    ])])])])])])])])])

expression(p) == assignment(p)

assignment(p) ==
    Let([r1 \in {binary("logic_or", p)} |->
    IF ~r1.ok THEN r1 ELSE
    Let([m \in {matches_with(r1.p, {"Equal"})} |->
    IF ~m.hit THEN r1 ELSE
    Let([r2 \in {assignment(m.p)} |->
    IF ~r2.ok THEN r2 ELSE
    LET value == alloc_expr(r2.p, r2.v)
    IN  IF r1.v.k = "Variable"
        THEN POk(ExprAssign(r1.v.name, value.id), value.p)
        ELSE PErr(custom(m.tok, "Invalid assignment target."), value.p)
    ])])])

\* the operators of one precedence level
LevelOps(level) ==
    CASE level = "logic_or" -> {"Or"}
      [] level = "logic_and" -> {"And"}
      [] level = "equality" -> {"BangEqual", "EqualEqual"}
      [] level = "comparison" -> {"Greater", "GreaterEqual", "Less", "LessEqual"}
      [] level = "term" -> {"Minus", "Plus"}
      [] level = "factor" -> {"Slash", "Star"}

\* the next higher precedence level; the operands of factor are unary
LevelNext(level) ==
    CASE level = "logic_or" -> "logic_and"
      [] level = "logic_and" -> "equality"
      [] level = "equality" -> "comparison"
      [] level = "comparison" -> "term"
      [] level = "term" -> "factor"
      [] level = "factor" -> "unary"

\* logic_or, logic_and, equality, comparison, term and factor
binary(level, p) ==
    IF level = "unary" THEN unary(p)
    ELSE Let([r \in {binary(LevelNext(level), p)} |->
         IF ~r.ok THEN r ELSE binary_loop(level, r.v, r.p)
    ])

\* while let Some(op) = self.matches_with(..) { right = next()?; expr = .. }
binary_loop(level, expr, p) ==
    Let([m \in {matches_with(p, LevelOps(level))} |->
    IF ~m.hit THEN POk(expr, p) ELSE
    Let([r \in {binary(LevelNext(level), m.p)} |->
    IF ~r.ok THEN r ELSE
    Let([left \in {alloc_expr(r.p, expr)} |->
    Let([right \in {alloc_expr(left.p, r.v)} |->
    LET node == IF level \in {"logic_or", "logic_and"}
                THEN ExprLogical(m.tok.ty.ty, left.id, right.id)
                ELSE ExprBinary(m.tok.ty.ty, left.id, right.id)
    IN  binary_loop(level, node, right.p)
    ])])])])

unary(p) ==
    Let([m \in {matches_with(p, {"Bang", "Minus"})} |->
    IF ~m.hit THEN call(p) ELSE
    Let([r \in {unary(m.p)} |->
    IF ~r.ok THEN r ELSE
    LET right == alloc_expr(r.p, r.v)
    IN  POk(ExprUnary(m.tok.ty.ty, right.id), right.p)
    ])])

call(p) ==
    Let([r \in {primary(p)} |->
    IF ~r.ok THEN r ELSE call_loop(r.v, r.p)
    ])

call_loop(expr, p) ==
    Let([m \in {matches_with(p, {"LeftParen"})} |->
    IF ~m.hit THEN POk(expr, p) ELSE
    Let([r1 \in {arguments(m.p)} |->
    IF ~r1.ok THEN r1 ELSE
    Let([args \in {alloc_expr_vec(r1.p, r1.v)} |->
    Let([r2 \in {consume(args.p, "RightParen")} |->
    IF ~r2.ok THEN r2 ELSE
    LET callee == alloc_expr(r2.p, expr)
    IN  call_loop(ExprCall(callee.id, args.ids), callee.p)
    ])])])])

arguments(p) ==
    IF peek_type(p) \in {"RightParen", ""}
    THEN POk(<<>>, p)
    ELSE Let([r \in {comma_separated(p, "expression", <<>>)} |->
         IF ~r.ok THEN r ELSE
         IF Len(r.v) > MaxArity
         THEN PErr(custom(peek_or_eof(r.p), "Can't have more than 255 arguments."), r.p)
         ELSE r
    ])

\* primary: "(" expression ")"
grouping(p1) ==
    Let([r1 \in {expression(p1)} |->
    IF ~r1.ok THEN r1 ELSE
    Let([inner \in {alloc_expr(r1.p, r1.v)} |->
    Let([r2 \in {consume(inner.p, "RightParen")} |->
    IF ~r2.ok THEN r2 ELSE POk(ExprGrouping(inner.id), r2.p)
    ])])])

primary(p) ==
    IF p.tokens = <<>>
    THEN PErr(expected("expression", p.eof), p)
    ELSE LET tok == p.tokens[1]
             p1  == pop_front(p)
         IN  CASE tok.ty.ty = "Number" ->
                    POk(ExprLiteral(NumberLiteral(tok.ty)), p1)
               [] tok.ty.ty = "String" -> POk(ExprLiteral(ObjStr(tok.ty.s)), p1)
               [] tok.ty.ty = "True" -> POk(ExprLiteral(ObjBool(TRUE)), p1)
               [] tok.ty.ty = "False" -> POk(ExprLiteral(ObjBool(FALSE)), p1)
               [] tok.ty.ty = "Nil" -> POk(ExprLiteral(ObjNil), p1)
               [] tok.ty.ty = "LeftParen" -> grouping(p1)
               [] tok.ty.ty = "Identifier" -> POk(ExprVariable(tok.ty.s), p1)
               [] OTHER -> PErr(expected("expression", tok), p1)

\* comma_separated with parse_fn either the parameter name or expression
comma_separated(p, what, args) ==
    Let([r \in {IF what = "parameter"
                THEN consume_with(p, {"Identifier"}, "parameter name")
                ELSE expression(p)} |->
    IF ~r.ok THEN r ELSE
    Let([m \in {matches_with(r.p, {"Comma"})} |->
    IF m.hit THEN comma_separated(m.p, what, Append(args, r.v))
    ELSE POk(Append(args, r.v), m.p)
    ])])

SyncStart == {"Class", "For", "Fun", "If", "Print", "Return", "Var", "While"}

RECURSIVE synchronize(_)
synchronize(p) ==
    IF p.tokens = <<>> THEN p
    ELSE LET tok == p.tokens[1]
             p1  == pop_front(p)
         IN  IF tok.ty.ty = "Semicolon" THEN p1
             ELSE IF peek_type(p1) \in SyncStart THEN p1
             ELSE synchronize(p1)

(***************************************************************************)
(* Object (runtime/object.rs).                                             *)
(***************************************************************************)
is_truthy(o) == IF o.t = "bool" THEN o.n = 1 ELSE o.t # "nil"

\* PartialEq for Object comparing functions by declaration and environment
obj_eq_by_identity(a, b) ==
    CASE a.t # b.t -> FALSE
      [] a.t = "nil" -> TRUE
      [] a.t = "num" -> ~IsNaN(a) /\ a.n = b.n /\ a.d = b.d
      [] OTHER -> a = b

\* PartialEq for Object: nil equals nil, values of one type compare by
\* value (functions by name), values of different types are unequal
obj_eq(a, b) ==
    CASE a.t # b.t -> FALSE
      [] a.t = "nil" -> TRUE
      [] a.t = "num" -> ~IsNaN(a) /\ a.n = b.n /\ a.d = b.d
      [] a.t = "fun" -> a.s = b.s
      [] OTHER -> a = b

\* PartialOrd for Object: "None" when the values are not comparable
partial_cmp(a, b) ==
    CASE a.t # b.t -> "None"
      [] a.t = "num" -> f64_cmp(a, b)
      [] a.t = "str" -> str_cmp(a.s, b.s)
      [] a.t = "bool" -> IF a.n < b.n THEN "Less" ELSE IF a.n > b.n THEN "Greater" ELSE "Equal"
      [] a.t = "u128" -> IF a.n < b.n THEN "Less" ELSE IF a.n > b.n THEN "Greater" ELSE "Equal"
      [] OTHER -> "None"

\* the operators of Object; ok is FALSE for OpError::InvalidOperand
OpOk(v) == [ok |-> TRUE, v |-> v, err |-> ""]

OpErr(message) == [ok |-> FALSE, v |-> ObjNil, err |-> "Invalid operand: " \o message]

\* the Display of the DowncastError of try_downcast::<f64>
DowncastError(a) == IF a.t = "nil" THEN "Object is nil" ELSE "Object is not of type f64"

\* left.try_downcast::<f64>()? and then right.try_downcast::<f64>()?
downcast_both(a, b) == OpErr(DowncastError(IF a.t # "num" THEN a ELSE b))

obj_add(a, b) ==
    IF a.t = "num" /\ b.t = "num" THEN OpOk(f64_add(a, b))
    ELSE IF a.t = "str" /\ b.t = "str" THEN OpOk(ObjStr(a.s \o b.s))
    ELSE OpErr("Objects not both String or f64")

obj_sub(a, b) ==
    IF a.t = "num" /\ b.t = "num" THEN OpOk(f64_sub(a, b)) ELSE downcast_both(a, b)

obj_mul(a, b) ==
    IF a.t = "num" /\ b.t = "num" THEN OpOk(f64_mul(a, b)) ELSE downcast_both(a, b)

obj_div(a, b) ==
    IF a.t = "num" /\ b.t = "num" THEN OpOk(f64_div(a, b)) ELSE downcast_both(a, b)

(***************************************************************************)
(* Chain (runtime/chain.rs): nodes are shared (Rc), so a chain is the id   *)
(* of its end node in the heap of all nodes, 0 for None, and cloning a     *)
(* chain copies the id.  A node is never changed except through the        *)
(* RefCell of its value.                                                   *)
(***************************************************************************)
Node(value, parent) == [value |-> value, parent |-> parent]

\* Chain::push: a new node whose parent is the old end
chain_push(heap, end, value) ==
    [heap |-> Append(heap, Node(value, end)), end |-> Len(heap) + 1]

\* Chain::pop: the new end is the parent of the old end
chain_pop(heap, end) == IF end = 0 THEN 0 ELSE heap[end].parent

\* Chain::iter: the nodes from the end to the root
RECURSIVE chain_iter(_, _)
chain_iter(heap, end) ==
    IF end = 0 THEN <<>> ELSE <<end>> \o chain_iter(heap, heap[end].parent)

\* Clone for Chain: the clone shares every node
chain_clone(end) == end

(***************************************************************************)
(* Environment (runtime/environment.rs): the scopes of an environment are  *)
(* the nodes of a Chain, innermost first.  The interpreter state st holds  *)
(* the heap of nodes (frames) and the current environment (env).           *)
(***************************************************************************)
ScopedEnvironmentNew == << >>

\* ScopedEnvironment::define
scope_define(values, name, object) ==
    [n \in DOMAIN values \cup {name} |-> IF n = name THEN object ELSE values[n]]

\* Environment::new: the global scope
EnvironmentNew == chain_push(<<>>, 0, ScopedEnvironmentNew)

push_scope(st) ==
    LET c == chain_push(st.frames, st.env, ScopedEnvironmentNew)
    IN  [st EXCEPT !.frames = c.heap, !.env = c.end]

pop_scope(st) == [st EXCEPT !.env = chain_pop(st.frames, st.env)]

\* Environment::define: into the innermost scope
define(st, name, object) ==
    [st EXCEPT !.frames[st.env].value = scope_define(@, name, object)]

\* Environment::define_global: into the outermost scope
define_global(st, name, object) ==
    LET scopes == chain_iter(st.frames, st.env)
    IN  [st EXCEPT !.frames[scopes[Len(scopes)]].value = scope_define(@, name, object)]

\* the scopes that get and assign search: those from `depth` scopes out of
\* the innermost one to the global one, nearest first
walked(st, depth) ==
    LET scopes == chain_iter(st.frames, st.env)
    IN  SubSeq(scopes, depth + 1, Len(scopes))

\* the first of the scope ids that defines name, 0 when none does
find_scope(st, scopes, name) ==
    LET hits == {i \in 1..Len(scopes) : name \in DOMAIN st.frames[scopes[i]].value}
    IN  IF hits = {} THEN 0 ELSE scopes[Min(hits)]

\* Environment::get: found is FALSE for None
get(st, vr, id, name) ==
    LET scope == IF id \in DOMAIN vr THEN find_scope(st, walked(st, vr[id]), name) ELSE 0
    IN  IF scope = 0 THEN [found |-> FALSE, v |-> ObjNil]
        ELSE [found |-> TRUE, v |-> st.frames[scope].value[name]]

\* Environment::assign: found is FALSE for EnvError::UndefinedVar
assign_lost(st, vr, id, name, object) ==
    LET scope == IF id \in DOMAIN vr THEN find_scope(st, walked(st, vr[id]), name) ELSE 0
    IN  [found |-> scope # 0, st |-> st]

assign_innermost(st, vr, id, name, object) ==
    LET scope == IF id \in DOMAIN vr THEN find_scope(st, walked(st, vr[id]), name) ELSE 0
    IN  IF scope = 0 THEN [found |-> FALSE, st |-> st]
        ELSE [found |-> TRUE, st |-> define(st, name, object)]

\* Environment::assign creating the name in the innermost scope when no
\* walked scope defines it
assign_or_define(st, vr, id, name, object) ==
    LET scope == IF id \in DOMAIN vr THEN find_scope(st, walked(st, vr[id]), name) ELSE 0
    IN  IF scope = 0 THEN [found |-> TRUE, st |-> define(st, name, object)]
        ELSE [found |-> TRUE, st |-> [st EXCEPT !.frames[scope].value[name] = object]]

assign(st, vr, id, name, object) ==
    LET scope == IF id \in DOMAIN vr THEN find_scope(st, walked(st, vr[id]), name) ELSE 0
    IN  IF scope = 0 THEN [found |-> FALSE, st |-> st]
        ELSE [found |-> TRUE, st |-> [st EXCEPT !.frames[scope].value[name] = object]]

\* Environment::resolve_var
resolve_var(vr, expr_id, depth) ==
    [i \in DOMAIN vr \cup {expr_id} |-> IF i = expr_id THEN depth ELSE vr[i]]

(***************************************************************************)
(* Resolver (passes/resolver.rs): rs holds scope_stack and the table the   *)
(* interpreter keeps for it.                                               *)
(***************************************************************************)
ResolverNew(vr) == [scope_stack |-> <<{}>>, vr |-> vr]

\* Resolver::resolve_local
resolve_local_innermost(rs, expr_id, name) == [rs EXCEPT !.vr = resolve_var(@, expr_id, 0)]

\* resolve_local taking the outermost scope that contains the name
resolve_local_outermost(rs, expr_id, name) ==
    LET n     == Len(rs.scope_stack)
        hits  == {i \in 0..n - 1 : name \in rs.scope_stack[n - i]}
        depth == IF hits = {} THEN n - 1 ELSE CHOOSE i \in hits : \A j \in hits : j <= i
    IN  [rs EXCEPT !.vr = resolve_var(@, expr_id, depth)]

\* resolve_local recording nothing for a name that no scope contains
resolve_local_known_only(rs, expr_id, name) ==
    LET n     == Len(rs.scope_stack)
        hits  == {i \in 0..n - 1 : name \in rs.scope_stack[n - i]}
    IN  IF hits = {} THEN rs ELSE [rs EXCEPT !.vr = resolve_var(@, expr_id, Min(hits))]

resolve_local(rs, expr_id, name) ==
    LET n     == Len(rs.scope_stack)
        \* i counts from the innermost scope, which is the last of the stack
        hits  == {i \in 0..n - 1 : name \in rs.scope_stack[n - i]}
        depth == IF hits = {} THEN n - 1 ELSE Min(hits)
    IN  [rs EXCEPT !.vr = resolve_var(@, expr_id, depth)]

resolver_define(rs, name) ==
    [rs EXCEPT !.scope_stack[Len(rs.scope_stack)] = @ \cup {name}]

begin_scope(rs) == [rs EXCEPT !.scope_stack = Append(@, {})]

end_scope(rs) == [rs EXCEPT !.scope_stack = SubSeq(@, 1, Len(@) - 1)]

RECURSIVE resolve_expr(_, _, _), resolve_exprs(_, _, _, _), resolve_fn(_, _, _),
          resolve_stmt(_, _, _), resolve_stmts_from(_, _, _, _)

resolve_expr(arena, rs, id) ==
    LET e == arena.expressions[id]
    IN  CASE e.k \in {"Binary", "Logical"} ->
                Let([r1 \in {resolve_expr(arena, rs, e.a)} |-> resolve_expr(arena, r1, e.b)])
          [] e.k = "Call" ->
                Let([r1 \in {resolve_expr(arena, rs, e.a)} |->
                     resolve_exprs(arena, r1, e.args, 1)])
          [] e.k \in {"Grouping", "Unary"} -> resolve_expr(arena, rs, e.a)
          [] e.k = "Literal" -> rs
          [] e.k = "Variable" -> resolve_local(rs, id, e.name)
          [] e.k = "Assign" ->
                Let([r1 \in {resolve_expr(arena, rs, e.a)} |-> resolve_local(r1, id, e.name)])

resolve_exprs(arena, rs, ids, i) ==
    IF i > Len(ids) THEN rs
    ELSE Let([r1 \in {resolve_expr(arena, rs, ids[i])} |->
         resolve_exprs(arena, r1, ids, i + 1)
    ])

resolve_fn(arena, rs, s) ==
    Let([r1 \in {begin_scope(rs)} |->
    Let([r2 \in {[r1 EXCEPT !.scope_stack[Len(r1.scope_stack)] =
                                {s.params[i] : i \in 1..Len(s.params)}]} |->
    Let([r3 \in {resolve_stmts_from(arena, r2, s.list, 1)} |->
    end_scope(r3)
    ])])])

resolve_var_stmt(arena, rs, s) ==
    Let([r1 \in {IF s.expr # 0 THEN resolve_expr(arena, rs, s.expr) ELSE rs} |->
    resolver_define(r1, s.name)
    ])

resolve_block(arena, rs, s) ==
    Let([r1 \in {begin_scope(rs)} |->
    Let([r2 \in {resolve_stmts_from(arena, r1, s.list, 1)} |->
    end_scope(r2)
    ])])

resolve_if(arena, rs, s) ==
    Let([r1 \in {resolve_expr(arena, rs, s.expr)} |->
    Let([r2 \in {resolve_stmt(arena, r1, s.a)} |->
    IF s.b # 0 THEN resolve_stmt(arena, r2, s.b) ELSE r2
    ])])

resolve_while(arena, rs, s) ==
    Let([r1 \in {resolve_expr(arena, rs, s.expr)} |->
    resolve_stmt(arena, r1, s.a)
    ])

resolve_function(arena, rs, s) ==
    Let([r1 \in {resolver_define(rs, s.name)} |->
    resolve_fn(arena, r1, s)
    ])

resolve_stmt(arena, rs, id) ==
    LET s == arena.statements[id]
    IN  CASE s.k \in {"Print", "Expression"} -> resolve_expr(arena, rs, s.expr)
          [] s.k = "Var" -> resolve_var_stmt(arena, rs, s)
          [] s.k = "Block" -> resolve_block(arena, rs, s)
          [] s.k = "If" -> resolve_if(arena, rs, s)
          [] s.k = "Return" -> IF s.expr # 0 THEN resolve_expr(arena, rs, s.expr) ELSE rs
          [] s.k = "While" -> resolve_while(arena, rs, s)
          [] s.k = "Function" -> resolve_function(arena, rs, s)

resolve_stmts_from(arena, rs, ids, i) ==
    IF i > Len(ids) THEN rs
    ELSE Let([r1 \in {resolve_stmt(arena, rs, ids[i])} |->
         resolve_stmts_from(arena, r1, ids, i + 1)
    ])

resolve_stmts(arena, rs, stmts) == resolve_stmts_from(arena, rs, stmts, 1)

(***************************************************************************)
(* Interpreter (runtime/interpreter.rs, runtime/callable.rs).  The state   *)
(* st of an interpreter is its environment (env, with the heap of its      *)
(* frames), its span_stack (a span is named by the id of its expression, 0 *)
(* for the root span) and what it has printed (out).  pushed and popped     *)
(* count the calls of push_scope and pop_scope, calls is the depth of the   *)
(* Lox calls in progress, and log records every exit of a block or call.    *)
(* An operation returns how it ended (cf: Ok, Error, Return, or Abort for   *)
(* a panic or an exhausted stack), its value, its error and the state.      *)
(***************************************************************************)
Res(cf, v, err, st) == [cf |-> cf, v |-> v, err |-> err, st |-> st]

ROk(v, st) == Res("Ok", v, "", st)

RErr(err, st) == Res("Error", ObjNil, err, st)

RReturn(v, st) == Res("Return", v, "", st)

RAbort(st) == Res("Abort", ObjNil, "", st)

NativeClock == Object("native", 0, "clock", 0, 0)

define_builtins(st) == define_global(st, "clock", NativeClock)

InterpreterNew ==
    define_builtins([env |-> EnvironmentNew.end, frames |-> EnvironmentNew.heap,
                     span_stack |-> <<0>>, out |-> <<>>, log |-> <<>>,
                     pushed |-> 0, popped |-> 0, calls |-> 0])

\* new_env: push_scope, and a guard whose drop is drop_env
new_env(st) == [push_scope(st) EXCEPT !.pushed = @ + 1]

\* the guard of new_env goes out of scope: |i| i.env.pop_scope()
drop_env_skipped(st) == st

drop_env(st) == [pop_scope(st) EXCEPT !.popped = @ + 1]

\* new_span: push_front, and a guard whose drop is drop_span
new_span(st, span) == [st EXCEPT !.span_stack = <<span>> \o @]

drop_span(st) == [st EXCEPT !.span_stack = Tail(@)]

current_span(st) == Head(st.span_stack)

\* Function::new(decl, env)
FunctionNew_global(arena, decl, env) == Object("fun", 0, arena.statements[decl].name, decl, 1)

FunctionNew(arena, decl, env) == Object("fun", 0, arena.statements[decl].name, decl, env)

arity(arena, callable) ==
    IF callable.t = "fun" THEN Len(arena.statements[callable.d].params) ELSE 0

\* interpreter.env = self.enclosing_env.clone()
enter_closure_skipped(st, f) == [st EXCEPT !.calls = @ + 1]

enter_closure(st, f) == [st EXCEPT !.env = chain_clone(f.e), !.calls = @ + 1]

\* interpreter.env = callsite_env
restore_env_skipped(st, callsite_env) == [st EXCEPT !.calls = @ - 1]

restore_env(st, callsite_env) == [st EXCEPT !.env = callsite_env, !.calls = @ - 1]

\* the record of the exit of a block or call: the environment before and
\* after it, how it ended, the frame it ran in and, for a call, the callee
Exit(kind, before, after, cf, frame, callee) ==
    [kind |-> kind, before |-> before, after |-> after, cf |-> cf, frame |-> frame,
     callee |-> callee]

logged(st, exit) == [st EXCEPT !.log = Append(@, exit)]

define_params(st, params, args) ==
    LET RECURSIVE go(_, _)
        go(s, i) == IF i > Len(params) \/ i > Len(args) THEN s
                    ELSE go(define(s, params[i], args[i]), i + 1)
    IN  go(st, 1)

RECURSIVE evaluate(_, _, _), visit_binary(_, _, _), visit_unary(_, _, _, _),
          visit_assign(_, _, _, _), visit_logical(_, _, _, _), visit_expr(_, _, _),
          visit_call(_, _, _), evaluate_args(_, _, _, _, _), callable_call(_, _, _, _),
          fn_call(_, _, _, _), execute(_, _, _), execute_block(_, _, _, _),
          visit_print(_, _, _), visit_expression(_, _, _), visit_var(_, _, _),
          visit_block(_, _, _), visit_if(_, _, _), visit_return(_, _, _),
          visit_while(_, _, _), while_loop(_, _, _, _)

evaluate(cx, st, id) ==
    [visit_expr(cx, new_span(st, id), id) EXCEPT !.st = drop_span(@)]

\* the value of a binary operator; ok is FALSE when the operands are invalid
binary_op(op, left, right) ==
    CASE op = "Plus" -> obj_add(left, right)
      [] op = "Minus" -> obj_sub(left, right)
      [] op = "Star" -> obj_mul(left, right)
      [] op = "Slash" -> obj_div(left, right)
      [] op = "Greater" -> OpOk(ObjBool(partial_cmp(left, right) = "Greater"))
      [] op = "GreaterEqual" -> OpOk(ObjBool(partial_cmp(left, right) \in {"Greater", "Equal"}))
      [] op = "Less" -> OpOk(ObjBool(partial_cmp(left, right) = "Less"))
      [] op = "LessEqual" -> OpOk(ObjBool(partial_cmp(left, right) \in {"Less", "Equal"}))
      [] op = "EqualEqual" -> OpOk(ObjBool(obj_eq(left, right)))
      [] op = "BangEqual" -> OpOk(ObjBool(~obj_eq(left, right)))

visit_binary(cx, st, e) ==
    Let([left \in {evaluate(cx, st, e.a)} |->
    IF left.cf # "Ok" THEN left ELSE
    Let([right \in {evaluate(cx, left.st, e.b)} |->
    IF right.cf # "Ok" THEN right ELSE
    Let([value \in {binary_op(e.op, left.v, right.v)} |->
    IF value.ok THEN ROk(value.v, right.st) ELSE RErr(value.err, right.st)
    ])])])

\* the value of a unary operator applied to the result of its operand
unary_op(op, right) ==
    IF right.cf # "Ok" THEN right
    ELSE IF op = "Minus"
         THEN IF right.v.t = "num" THEN ROk(f64_neg(right.v), right.st)
              ELSE RErr("Invalid operand: " \o DowncastError(right.v), right.st)
         ELSE ROk(ObjBool(~is_truthy(right.v)), right.st)

visit_unary(cx, st, id, e) ==
    Let([right \in {evaluate(cx, new_span(st, id), e.a)} |->
    [unary_op(e.op, right) EXCEPT !.st = drop_span(@)]
    ])

visit_variable(cx, st, id, e) ==
    LET g == get(st, cx.vr, id, e.name)
    IN  IF g.found THEN ROk(g.v, st) ELSE RErr("Undefined variable.", st)

visit_assign(cx, st, id, e) ==
    Let([value \in {evaluate(cx, new_span(st, id), e.a)} |->
    IF value.cf # "Ok" THEN [value EXCEPT !.st = drop_span(@)] ELSE
    LET a == assign(value.st, cx.vr, id, e.name, value.v)
    IN  IF a.found THEN ROk(value.v, drop_span(a.st))
        ELSE RErr("Undefined variable '" \o e.name \o "'.", drop_span(value.st))
    ])

\* visit_logical evaluating the right operand before it looks at the left one
visit_logical_eager(cx, st, id, e) ==
    Let([left \in {evaluate(cx, new_span(st, id), e.a)} |->
    IF left.cf # "Ok" THEN [left EXCEPT !.st = drop_span(@)] ELSE
    Let([right \in {evaluate(cx, left.st, e.b)} |->
    [IF right.cf # "Ok" THEN right
     ELSE IF (e.op = "Or") = is_truthy(left.v) THEN [right EXCEPT !.v = left.v]
     ELSE right EXCEPT !.st = drop_span(@)]
    ])])

visit_logical(cx, st, id, e) ==
    Let([left \in {evaluate(cx, new_span(st, id), e.a)} |->
    [IF left.cf # "Ok" THEN left
     ELSE IF (e.op = "Or") = is_truthy(left.v) THEN left
     ELSE evaluate(cx, left.st, e.b) EXCEPT !.st = drop_span(@)]
    ])

\* the arguments, left to right, up to the first that fails
evaluate_args(cx, st, ids, i, args) ==
    IF i > Len(ids) THEN Res("Ok", args, "", st)
    ELSE Let([r \in {evaluate(cx, st, ids[i])} |->
         IF r.cf # "Ok" THEN r
         ELSE evaluate_args(cx, r.st, ids, i + 1, Append(args, r.v))
    ])

\* visit_call checking the callee before it evaluates the arguments
visit_call_checks_first(cx, st, e) ==
    Let([callee \in {evaluate(cx, new_span(st, e.a), e.a)} |->
    IF callee.cf # "Ok" THEN [callee EXCEPT !.st = drop_span(@)] ELSE
    IF callee.v.t \notin {"fun", "native"}
    THEN RErr("Object is not a callable.", drop_span(callee.st)) ELSE
    IF arity(cx.arena, callee.v) # Len(e.args)
    THEN RErr("Expected " \o ToString(arity(cx.arena, callee.v)) \o
              " arguments but found " \o ToString(Len(e.args)), drop_span(callee.st)) ELSE
    Let([args \in {evaluate_args(cx, callee.st, e.args, 1, <<>>)} |->
    [IF args.cf # "Ok" THEN args
     ELSE callable_call(cx, args.st, callee.v, args.v) EXCEPT !.st = drop_span(@)]
    ])])

visit_call(cx, st, e) ==
    Let([callee \in {evaluate(cx, new_span(st, e.a), e.a)} |->
    IF callee.cf # "Ok" THEN [callee EXCEPT !.st = drop_span(@)] ELSE
    Let([args \in {evaluate_args(cx, callee.st, e.args, 1, <<>>)} |->
    [IF args.cf # "Ok" THEN args
     ELSE IF callee.v.t \notin {"fun", "native"}
          THEN RErr("Object is not a callable.", args.st)
     ELSE IF arity(cx.arena, callee.v) # Len(args.v)
          THEN RErr("Expected " \o ToString(arity(cx.arena, callee.v)) \o
                    " arguments but found " \o ToString(Len(args.v)), args.st)
     ELSE callable_call(cx, args.st, callee.v, args.v) EXCEPT !.st = drop_span(@)]
    ])])

visit_expr(cx, st, id) ==
    LET e == cx.arena.expressions[id]
    IN  CASE e.k = "Binary" -> visit_binary(cx, st, e)
          [] e.k = "Call" -> visit_call(cx, st, e)
          [] e.k = "Grouping" -> evaluate(cx, st, e.a)
          [] e.k = "Literal" -> ROk(e.lit, st)
          [] e.k = "Unary" -> visit_unary(cx, st, id, e)
          [] e.k = "Variable" -> visit_variable(cx, st, id, e)
          [] e.k = "Assign" -> visit_assign(cx, st, id, e)
          [] e.k = "Logical" -> visit_logical(cx, st, id, e)

\* NativeFunction::call: the function runs in a scope of its own
native_call(cx, st, f, args) ==
    LET s1 == new_env(st)
        s2 == drop_env(s1)
    IN  ROk(Object("u128", cx.now, "", 0, 0),
            logged(s2, Exit("native", st.env, s2.env, "Ok", s1.env, f)))

\* Function::call
\* the state in which the body of a call starts: the environment is the
\* captured one with a new scope that holds the arguments
call_state(cx, st, f, args) ==
    define_params(new_env(enter_closure(st, f)), cx.arena.statements[f.d].params, args)

\* the result of a call whose body ended with `body`
call_result(st, f, frame, body) ==
    LET callsite_env == chain_clone(st.env)
        s4 == restore_env(drop_env(body.st), callsite_env)
        s5 == logged(s4, Exit("call", callsite_env, s4.env, body.cf, frame, f))
    IN  CASE body.cf = "Ok" -> ROk(ObjNil, s5)
          [] body.cf = "Return" -> ROk(body.v, s5)
          [] body.cf = "Error" -> RErr(body.err, s5)
          [] body.cf = "Abort" -> body

fn_call(cx, st, f, args) ==
    IF st.calls >= MaxCalls THEN RAbort(st) ELSE
    Let([s2 \in {call_state(cx, st, f, args)} |->
    Let([body \in {execute_block(cx, s2, cx.arena.statements[f.d].list, 1)} |->
    call_result(st, f, s2.env, body)
    ])])

callable_call(cx, st, f, args) ==
    IF f.t = "native" THEN native_call(cx, st, f, args) ELSE fn_call(cx, st, f, args)

\* execute_block going on to the next statement after a return
execute_block_past_return(cx, st, ids, i) ==
    IF i > Len(ids) THEN ROk(ObjNil, st)
    ELSE Let([r \in {execute(cx, st, ids[i])} |->
         IF r.cf \in {"Error", "Abort"} THEN r ELSE execute_block(cx, r.st, ids, i + 1)
    ])

execute_block(cx, st, ids, i) ==
    IF i > Len(ids) THEN ROk(ObjNil, st)
    ELSE Let([r \in {execute(cx, st, ids[i])} |->
         IF r.cf # "Ok" THEN r ELSE execute_block(cx, r.st, ids, i + 1)
    ])

visit_print(cx, st, s) ==
    Let([value \in {evaluate(cx, st, s.expr)} |->
    IF value.cf # "Ok" THEN value
    ELSE ROk(ObjNil, [value.st EXCEPT !.out = Append(@, value.v)])
    ])

visit_expression(cx, st, s) ==
    Let([value \in {evaluate(cx, st, s.expr)} |->
    IF value.cf # "Ok" THEN value ELSE ROk(ObjNil, value.st)
    ])

visit_var(cx, st, s) ==
    Let([initializer \in {IF s.expr # 0 THEN evaluate(cx, st, s.expr) ELSE ROk(ObjNil, st)} |->
    IF initializer.cf # "Ok" THEN initializer
    ELSE ROk(ObjNil, define(initializer.st, s.name, initializer.v))
    ])

visit_block(cx, st, s) ==
    Let([r \in {execute_block(cx, new_env(st), s.list, 1)} |->
    IF r.cf = "Abort" THEN r ELSE
    LET s2 == drop_env(r.st)
    IN  [r EXCEPT !.st = logged(s2, Exit("block", st.env, s2.env, r.cf,
                                         new_env(st).env, ObjNil))]
    ])

visit_if(cx, st, s) ==
    Let([c \in {evaluate(cx, st, s.expr)} |->
    IF c.cf # "Ok" THEN c
    ELSE IF is_truthy(c.v) THEN execute(cx, c.st, s.a)
    ELSE IF s.b # 0 THEN execute(cx, c.st, s.b)
    ELSE ROk(ObjNil, c.st)
    ])

visit_return(cx, st, s) ==
    Let([value \in {IF s.expr # 0 THEN evaluate(cx, st, s.expr) ELSE ROk(ObjNil, st)} |->
    IF value.cf # "Ok" THEN value ELSE RReturn(value.v, value.st)
    ])

\* the loop of visit_while after `turns` turns; a loop that is still
\* running after MaxLoops turns is followed no further
while_loop(cx, st, s, turns) ==
    Let([c \in {evaluate(cx, st, s.expr)} |->
    IF c.cf # "Ok" THEN c ELSE
    IF ~is_truthy(c.v) THEN ROk(ObjNil, c.st) ELSE
    IF turns >= MaxLoops THEN RAbort(c.st) ELSE
    Let([b \in {execute(cx, c.st, s.a)} |->
    IF b.cf # "Ok" THEN b ELSE while_loop(cx, b.st, s, turns + 1)
    ])])

visit_while(cx, st, s) == while_loop(cx, st, s, 0)

visit_function(cx, st, id, s) ==
    ROk(ObjNil, define(st, s.name, FunctionNew(cx.arena, id, chain_clone(st.env))))

execute(cx, st, id) ==
    LET s == cx.arena.statements[id]
    IN  CASE s.k = "Print" -> visit_print(cx, st, s)
          [] s.k = "Expression" -> visit_expression(cx, st, s)
          [] s.k = "Var" -> visit_var(cx, st, s)
          [] s.k = "Block" -> visit_block(cx, st, s)
          [] s.k = "If" -> visit_if(cx, st, s)
          [] s.k = "Return" -> visit_return(cx, st, s)
          [] s.k = "While" -> visit_while(cx, st, s)
          [] s.k = "Function" -> visit_function(cx, st, id, s)

\* one turn of the loop of Interpreter::interpret
\* a loop that takes a runtime error for a normal ending and goes on
interpret_statement_lenient(cx, st, id) ==
    Let([r \in {execute(cx, st, id)} |->
    IF r.cf = "Error" THEN ROk(ObjNil, r.st) ELSE r
    ])

interpret_statement(cx, st, id) ==
    Let([r \in {execute(cx, st, id)} |->
    IF r.cf = "Return" THEN RErr("Invalid return statement function.", r.st) ELSE r
    ])

(***************************************************************************)
(* Reporter and run() (rlox-tree-walk/src/lib.rs).                         *)
(***************************************************************************)
\* parse_errs.iter().for_each(|e| reporter.report(e))
report_first(reported_, errs_) == reported_ \o <<errs_[1]>>

report_all(reported_, errs_) == reported_ \o errs_

\* RuntimeError as the reporter gets it
RuntimeError(message) == [span |-> Span(0, 0, 0, 0), message |-> message]

\* the parser before Parser::new has run
NoParser == [arena |-> AstArenaDefault, tokens |-> <<>>, eof |-> Token(Tok("Eof"), Span(0, 0, 1, 1))]

\* what the visitors read but do not change: the arena, the resolver's table
\* and the reading of the clock
Context(now) == [arena |-> ast_arena, vr |-> var_resolution, now |-> now]

\* the readings the system clock may give
Times == 0..MaxClock

(***************************************************************************)
(* The process: command line, standard input, exit code; and the chunk     *)
(* and virtual machine of the bytecode back-end before anything was        *)
(* written or run.                                                         *)
(***************************************************************************)
\* rlox script.lox
ScriptArgs == <<"rlox", "script.lox">>

\* rlox
PromptArgs == <<"rlox">>

\* standard input holding the lines given, none of them read yet
Stdin(lines) == [lines |-> lines, next |-> 1]

\* the exit code while the process runs
Running == -1

\* Chunk::default()
ChunkDefault == [code |-> <<>>, constants |-> <<>>, lines |-> <<>>]

\* VirtualMachine::default(), and run not yet called
VirtualMachineDefault == [stack |-> <<>>, cursor |-> 0, state |-> "idle", printed |-> <<>>, trace |-> <<>>]

\* the bytecode back-end is not in use
NoVm ==
    /\ chunk = ChunkDefault
    /\ emitted = <<>>
    /\ listing = <<>>
    /\ vm = VirtualMachineDefault

(***************************************************************************)
(* The bytecode back-end: opcodes and their encoding (rlox-vm/opcode.rs,   *)
(* enconding.rs), chunks (rlox-vm/chunk.rs), the disassembler              *)
(* (rlox-compiler/debug.rs) and the stack machine (rlox-compiler/vm.rs).   *)
(* An OpCode is a record; a Value is the f64 of the tree-walk numbers.     *)
(***************************************************************************)

\* u8::MAX
U8Max == 255

\* the exit code of a process that panicked
PanicExit == 101

\* enum OpCode: the variant and, for Constant, its Addr (0 for the others)
OpCode(op, addr) == [op |-> op, addr |-> addr]

NoOp == OpCode("NoOp", 0)

Return == OpCode("Return", 0)

Constant(addr) == OpCode("Constant", addr)

Neg == OpCode("Neg", 0)

Add == OpCode("Add", 0)

Sub == OpCode("Sub", 0)

Mul == OpCode("Mul", 0)

Div == OpCode("Div", 0)

\* every value of the enum
OpCodes == {NoOp, Return, Neg, Add, Sub, Mul, Div} \cup {Constant(addr) : addr \in 0..U8Max}

\* Encode for OpCode: the bytes written
encode(instruction) ==
    CASE instruction.op = "NoOp" -> <<0>>
      [] instruction.op = "Return" -> <<1>>
      [] instruction.op = "Constant" -> <<2, instruction.addr>>
      [] instruction.op = "Neg" -> <<3>>
      [] instruction.op = "Add" -> <<4>>
      [] instruction.op = "Sub" -> <<5>>
      [] instruction.op = "Mul" -> <<6>>
      [] instruction.op = "Div" -> <<7>>

\* Ok((opcode, consumed))
DecodeOk(opcode, consumed) == [ok |-> TRUE, op |-> opcode, consumed |-> consumed, err |-> ""]

\* Err(OpDecodeError)
DecodeErr(err) == [ok |-> FALSE, op |-> NoOp, consumed |-> 0, err |-> err]

\* Decode for OpCode taking every instruction for one byte long
decode_one_byte(buf) ==
    CASE buf[1] = 0 -> DecodeOk(NoOp, 1)
      [] buf[1] = 1 -> DecodeOk(Return, 1)
      [] buf[1] = 2 /\ Len(buf) >= 2 -> DecodeOk(Constant(buf[2]), 1)
      [] buf[1] = 2 /\ Len(buf) < 2 -> DecodeErr("insufficient")
      [] buf[1] = 3 -> DecodeOk(Neg, 1)
      [] buf[1] = 4 -> DecodeOk(Add, 1)
      [] buf[1] = 5 -> DecodeOk(Sub, 1)
      [] buf[1] = 6 -> DecodeOk(Mul, 1)
      [] buf[1] = 7 -> DecodeOk(Div, 1)
      [] OTHER -> DecodeErr("unknown")

\* Decode for OpCode, on a buffer that is not empty
decode(buf) ==
    CASE buf[1] = 0 -> DecodeOk(NoOp, 1)
      [] buf[1] = 1 -> DecodeOk(Return, 1)
      [] buf[1] = 2 /\ Len(buf) >= 2 -> DecodeOk(Constant(buf[2]), 2)
      [] buf[1] = 2 /\ Len(buf) < 2 -> DecodeErr("insufficient")
      [] buf[1] = 3 -> DecodeOk(Neg, 1)
      [] buf[1] = 4 -> DecodeOk(Add, 1)
      [] buf[1] = 5 -> DecodeOk(Sub, 1)
      [] buf[1] = 6 -> DecodeOk(Mul, 1)
      [] buf[1] = 7 -> DecodeOk(Div, 1)
      [] OTHER -> DecodeErr("unknown")

\* OpDecoder::decode_op on a Cursor over code at position: Ok(None) at the
\* end, Ok(Some(op)) with the cursor moved past the bytes consumed, or Err
decode_op(code, position) ==
    LET buf == SubSeq(code, position + 1, Len(code))
    IN IF buf = <<>>
       THEN [res |-> "None", op |-> NoOp, position |-> position]
       ELSE IF decode(buf).ok
            THEN [res |-> "Some", op |-> decode(buf).op, position |-> position + decode(buf).consumed]
            ELSE [res |-> "Err", op |-> NoOp, position |-> position]

\* struct LineInfo: line and byte_range start..end
LineInfo(line, start, end) == [line |-> line, start |-> start, end |-> end]

\* Chunk::write
write(ch, instruction) == [ch EXCEPT !.code = ch.code \o encode(instruction)]

\* Chunk::write_with_line
write_with_line(ch, instruction, line) ==
    LET start_offset == Len(ch.code)
        written == write(ch, instruction)
        last_byte_offset == Len(written.code)
        n == Len(ch.lines)
    IN IF n > 0 /\ ch.lines[n].line = line
       THEN [written EXCEPT !.lines[n].end = last_byte_offset]
       ELSE [written EXCEPT !.lines = Append(ch.lines, LineInfo(line, start_offset, last_byte_offset))]

\* Chunk::add_constant: the assertion fails (panic) or the value is pushed
\* and its index returned
add_constant(ch, value) ==
    IF Len(ch.constants) < U8Max
    THEN [panic |-> FALSE, chunk |-> [ch EXCEPT !.constants = Append(ch.constants, value)], addr |-> Len(ch.constants)]
    ELSE [panic |-> TRUE, chunk |-> ch, addr |-> 0]

\* Chunk::write_constant
write_constant(ch, value) ==
    IF add_constant(ch, value).panic
    THEN add_constant(ch, value)
    ELSE [add_constant(ch, value) EXCEPT !.chunk = write(add_constant(ch, value).chunk, Constant(add_constant(ch, value).addr))]

\* Chunk::write_constant_with_line
write_constant_with_line(ch, value, line) ==
    IF add_constant(ch, value).panic
    THEN add_constant(ch, value)
    ELSE [add_constant(ch, value) EXCEPT !.chunk = write_with_line(add_constant(ch, value).chunk, Constant(add_constant(ch, value).addr), line)]

\* Chunk::constant: the index is in bounds
HasConstant(ch, addr) == addr < Len(ch.constants)

\* Chunk::constant
constant(ch, addr) == ch.constants[addr + 1]

\* disassemble_chunk, the line_str loop: the mark printed for the
\* instruction at offset, the line run reached and the line last printed
RECURSIVE line_str(_, _, _, _)
line_str(lines, curr_line, offset, prev_line) ==
    IF curr_line > Len(lines)
    THEN [str |-> "?", curr_line |-> curr_line, prev_line |-> prev_line]
    ELSE IF lines[curr_line].start <= offset /\ offset < lines[curr_line].end
         THEN IF lines[curr_line].line # prev_line
              THEN [str |-> ToString(lines[curr_line].line), curr_line |-> curr_line, prev_line |-> lines[curr_line].line]
              ELSE [str |-> "|", curr_line |-> curr_line, prev_line |-> prev_line]
         ELSE IF lines[curr_line].start > offset
              THEN [str |-> "?", curr_line |-> curr_line, prev_line |-> prev_line]
              ELSE line_str(lines, curr_line + 1, offset, prev_line)

\* one row of the listing: disassemble_instruction
Row(offset, str, opcode) == [offset |-> offset, line |-> str, op |-> opcode]

\* disassemble_chunk, the while loop from offset on: the rows printed, and
\* whether OpCode::disassemble panicked on a Constant without its constant
RECURSIVE disassemble_from(_, _, _, _, _)
disassemble_from(ch, offset, curr_line, prev_line, rows) ==
    IF decode_op(ch.code, offset).res # "Some"
    THEN [rows |-> rows, panic |-> FALSE]
    ELSE IF decode_op(ch.code, offset).op.op = "Constant" /\ ~HasConstant(ch, decode_op(ch.code, offset).op.addr)
         THEN [rows |-> rows, panic |-> TRUE]
         ELSE disassemble_from(ch, decode_op(ch.code, offset).position,
                               line_str(ch.lines, curr_line, offset, prev_line).curr_line,
                               line_str(ch.lines, curr_line, offset, prev_line).prev_line,
                               Append(rows, Row(offset, line_str(ch.lines, curr_line, offset, prev_line).str,
                                                decode_op(ch.code, offset).op)))

\* Disassembler::disassemble_chunk
disassemble_chunk(ch) == disassemble_from(ch, 0, 1, 0, <<>>)

\* impl Add, Sub, Mul, Div for Value with the operands exchanged
ValueOp_swapped(opcode, a, b) ==
    CASE opcode.op = "Add" -> f64_add(b, a)
      [] opcode.op = "Sub" -> f64_sub(b, a)
      [] opcode.op = "Mul" -> f64_mul(b, a)
      [] opcode.op = "Div" -> f64_div(b, a)

\* impl Add, Sub, Mul, Div for Value: a + b, a - b, a * b, a / b
ValueOp(opcode, a, b) ==
    CASE opcode.op = "Add" -> f64_add(a, b)
      [] opcode.op = "Sub" -> f64_sub(a, b)
      [] opcode.op = "Mul" -> f64_mul(a, b)
      [] opcode.op = "Div" -> f64_div(a, b)

\* VirtualMachine::stack_push
stack_push(stack, value) == Append(stack, value)

\* VirtualMachine::stack_pop yielding 0 on an empty stack instead of the panic
stack_pop_lenient(stack) ==
    IF stack = <<>>
    THEN [panic |-> FALSE, value |-> Num(0, 1), stack |-> stack]
    ELSE [panic |-> FALSE, value |-> stack[Len(stack)], stack |-> SubSeq(stack, 1, Len(stack) - 1)]

\* VirtualMachine::stack_pop: the expect panics on an empty stack
stack_pop(stack) ==
    IF stack = <<>>
    THEN [panic |-> TRUE, value |-> Num(0, 1), stack |-> stack]
    ELSE [panic |-> FALSE, value |-> stack[Len(stack)], stack |-> SubSeq(stack, 1, Len(stack) - 1)]

\* VirtualMachine::run, the arms of Add, Sub, Mul and Div: b is popped, then a
binary_arm(m, opcode) ==
    IF stack_pop(m.stack).panic
    THEN [m EXCEPT !.state = "panic"]
    ELSE IF stack_pop(stack_pop(m.stack).stack).panic
         THEN [m EXCEPT !.stack = stack_pop(m.stack).stack, !.state = "panic"]
         ELSE [m EXCEPT !.stack = stack_push(stack_pop(stack_pop(m.stack).stack).stack,
                                             ValueOp(opcode, stack_pop(stack_pop(m.stack).stack).value,
                                                     stack_pop(m.stack).value))]

\* VirtualMachine::run, the match on op
run_op(m, ch, opcode) ==
    CASE opcode.op = "NoOp" -> m
      [] opcode.op = "Return" ->
            IF stack_pop(m.stack).panic
            THEN [m EXCEPT !.state = "panic"]
            ELSE [m EXCEPT !.stack = stack_pop(m.stack).stack,
                           !.printed = Append(@, stack_pop(m.stack).value),
                           !.state = "Ok"]
      [] opcode.op = "Constant" ->
            IF HasConstant(ch, opcode.addr)
            THEN [m EXCEPT !.stack = stack_push(@, constant(ch, opcode.addr))]
            ELSE [m EXCEPT !.state = "panic"]
      [] opcode.op = "Neg" ->
            IF m.stack = <<>>
            THEN [m EXCEPT !.state = "panic"]
            ELSE [m EXCEPT !.stack[Len(m.stack)] = f64_neg(@)]
      [] OTHER -> binary_arm(m, opcode)

\* the run has not ended
VmRunning == exit_code = Running /\ vm.state \in {"idle", "run"}

\* VirtualMachine::run, one turn of the while loop: decode_op yields an
\* instruction, which is executed, or a decode error, which run returns
VmStep ==
    /\ VmRunning
    /\ decode_op(chunk.code, vm.cursor).res # "None"
    /\ vm' = IF decode_op(chunk.code, vm.cursor).res = "Err"
             THEN [vm EXCEPT !.state = "DecodeErr"]
             ELSE run_op([vm EXCEPT !.cursor = decode_op(chunk.code, vm.cursor).position,
                                    !.state = "run",
                                    !.trace = Append(@, decode_op(chunk.code, vm.cursor).op)],
                         chunk, decode_op(chunk.code, vm.cursor).op)
    /\ exit_code' = IF vm'.state = "panic" THEN PanicExit ELSE exit_code
    /\ UNCHANGED <<chunk, emitted, listing, argv, stdin, source, lexvars, parsevars, runvars>>

\* VirtualMachine::run, the end of the code: Ok(())
VmEnd ==
    /\ VmRunning
    /\ decode_op(chunk.code, vm.cursor).res = "None"
    /\ vm' = [vm EXCEPT !.state = "Ok"]
    /\ UNCHANGED <<chunk, emitted, listing, procvars, source, lexvars, parsevars, runvars>>

\* println!("{chunk:?}") before the run: the listing of disassemble_chunk
Disassemble ==
    /\ exit_code = Running
    /\ vm.state = "idle"
    /\ listing = <<>>
    /\ chunk.code # <<>>
    /\ listing' = disassemble_chunk(chunk).rows
    /\ exit_code' = IF disassemble_chunk(chunk).panic THEN PanicExit ELSE exit_code
    /\ UNCHANGED <<chunk, emitted, vm, argv, stdin, source, lexvars, parsevars, runvars>>

\* the bound on the calls that build a chunk
MaxOps == 3

\* the values written as constants
Values == {Num(3, 1), Num(2, 1)}

\* the lines instructions are written with
LineNumbers == {123, 124}

\* the instructions the chunk builder writes
EmitOps == {NoOp, Constant(0), Div}

\* a chunk after U8Max - 1 calls of add_constant
Prefilled == [ChunkDefault EXCEPT !.constants = [i \in 1..(U8Max - 1) |-> Num(2, 1)]]

\* the chunk is still being built, fewer than MaxOps instructions and
\* constants after the initial ones
Emitting ==
    /\ exit_code = Running
    /\ vm.state = "idle"
    /\ listing = <<>>
    /\ Len(emitted) + (Len(chunk.constants) - (IF Len(chunk.constants) >= Len(Prefilled.constants)
                                              THEN Len(Prefilled.constants) ELSE 0)) < MaxOps

\* nothing but the chunk and exit_code changes while it is built
EmitFrame == UNCHANGED <<listing, vm, argv, stdin, source, lexvars, parsevars, runvars>>

\* a call of Chunk::write
Write ==
    /\ Emitting
    /\ \E instruction \in EmitOps :
          /\ chunk' = write(chunk, instruction)
          /\ emitted' = Append(emitted, instruction)
    /\ exit_code' = exit_code
    /\ EmitFrame

\* a call of Chunk::write_with_line
WriteWithLine ==
    /\ Emitting
    /\ \E instruction \in EmitOps, line \in LineNumbers :
          /\ chunk' = write_with_line(chunk, instruction, line)
          /\ emitted' = Append(emitted, instruction)
    /\ exit_code' = exit_code
    /\ EmitFrame

\* a call of Chunk::add_constant
AddConstant ==
    /\ Emitting
    /\ \E value \in Values :
          /\ chunk' = add_constant(chunk, value).chunk
          /\ exit_code' = IF add_constant(chunk, value).panic THEN PanicExit ELSE exit_code
    /\ emitted' = emitted
    /\ EmitFrame

\* a call of Chunk::write_constant
WriteConstant ==
    /\ Emitting
    /\ \E value \in Values :
          /\ chunk' = write_constant(chunk, value).chunk
          /\ emitted' = IF write_constant(chunk, value).panic THEN emitted
                        ELSE Append(emitted, Constant(write_constant(chunk, value).addr))
          /\ exit_code' = IF write_constant(chunk, value).panic THEN PanicExit ELSE exit_code
    /\ EmitFrame

\* a call of Chunk::write_constant_with_line
WriteConstantWithLine ==
    /\ Emitting
    /\ \E value \in Values, line \in LineNumbers :
          /\ chunk' = write_constant_with_line(chunk, value, line).chunk
          /\ emitted' = IF write_constant_with_line(chunk, value, line).panic THEN emitted
                        ELSE Append(emitted, Constant(write_constant_with_line(chunk, value, line).addr))
          /\ exit_code' = IF write_constant_with_line(chunk, value, line).panic THEN PanicExit ELSE exit_code
    /\ EmitFrame

(***************************************************************************)
(* scan_tokens, one action per turn of its loop.                           *)
(***************************************************************************)
\* Ok(Some(token)) => tokens.push(self.make_token(token))
ScanPush ==
    /\ run_state = "scan"
    /\ scan_state = "loop"
    /\ \E r \in {scan_token(scanner)} :
           /\ r.res = "Some"
           /\ scanner' = r.sc
           /\ tokens' = Append(tokens, make_token(r.sc, r.ty))
    /\ UNCHANGED <<procvars, vmvars, source, errors, scan_state, parsevars, runvars>>

\* Err(err) => errors.push(err)
ScanError ==
    /\ run_state = "scan"
    /\ scan_state = "loop"
    /\ \E r \in {scan_token(scanner)} :
           /\ r.res = "Err"
           /\ scanner' = r.sc
           /\ errors' = Append(errors, r.err)
    /\ UNCHANGED <<procvars, vmvars, source, tokens, scan_state, parsevars, runvars>>

\* the expect() in number() fails: the thread panics inside scan_token
ScanPanic ==
    /\ run_state = "scan"
    /\ scan_state = "loop"
    /\ \E r \in {scan_token(scanner)} :
           /\ r.res = "Panic"
           /\ scanner' = r.sc
    /\ scan_state' = "panic"
    /\ UNCHANGED <<procvars, vmvars, source, tokens, errors, parsevars, runvars>>

\* Ok(None) => break, then the code after the loop
ScanBreak ==
    /\ run_state = "scan"
    /\ scan_state = "loop"
    /\ \E r \in {scan_token(scanner)} :
           /\ r.res = "None"
           /\ scanner' = r.sc
           /\ IF errors # <<>>
              THEN /\ scan_state' = "Err"
                   /\ tokens' = tokens
              ELSE /\ scan_state' = "Ok"
                   /\ tokens' = Append(tokens, EofToken(r.sc))
    /\ UNCHANGED <<procvars, vmvars, source, errors, parsevars, runvars>>

(***************************************************************************)
(* run(): what follows scan_tokens.                                        *)
(***************************************************************************)
\* scan_tokens returned Err: every error is reported and run returns
RunLexErr ==
    /\ run_state = "scan"
    /\ scan_state = "Err"
    /\ reported' = report_all(reported, errors)
    /\ run_state' = "LexErr"
    /\ UNCHANGED <<procvars, vmvars, source, lexvars, parsevars, ast_arena, program, var_resolution,
                   interpreter, pc>>

\* scan_tokens returned Ok: Parser::new(ast_arena, tokens)
RunParser ==
    /\ run_state = "scan"
    /\ scan_state = "Ok"
    /\ parser' = ParserNew(ast_arena, tokens)
    /\ run_state' = "parse"
    /\ UNCHANGED <<procvars, vmvars, source, lexvars, parse_stmts, parse_errs, ast_arena, program, var_resolution,
                   interpreter, pc, reported>>

\* Parser::parse, a turn of the loop: Ok(stmt) => stmts.push(self.alloc_stmt(stmt))
ParseDeclaration ==
    /\ run_state = "parse"
    /\ peek_type(parser) # ""
    /\ \E r \in {declaration(parser)} :
           /\ r.ok
           /\ \E s \in {alloc_stmt(r.p, r.v)} :
                /\ parser' = s.p
                /\ ast_arena' = s.p.arena
                /\ parse_stmts' = Append(parse_stmts, s.id)
    /\ UNCHANGED <<procvars, vmvars, source, lexvars, parse_errs, program, var_resolution, interpreter, pc,
                   reported, run_state>>

\* Parser::parse, a turn of the loop: Err(err) => synchronize, parse_errs.push(err)
ParseError ==
    /\ run_state = "parse"
    /\ peek_type(parser) # ""
    /\ \E r \in {declaration(parser)} :
           /\ ~r.ok
           /\ \E p \in {IF r.err.should_sync THEN synchronize(r.p) ELSE r.p} :
                /\ parser' = p
                /\ ast_arena' = p.arena
           /\ parse_errs' = Append(parse_errs, r.err)
    /\ UNCHANGED <<procvars, vmvars, source, lexvars, parse_stmts, program, var_resolution, interpreter, pc,
                   reported, run_state>>

\* Parser::parse returned Err(parse_errs): every error is reported and run returns
RunParseErr ==
    /\ run_state = "parse"
    /\ peek_type(parser) = ""
    /\ parse_errs # <<>>
    /\ reported' = report_all(reported, parse_errs)
    /\ run_state' = "ParseErr"
    /\ UNCHANGED <<procvars, vmvars, source, lexvars, parsevars, ast_arena, program, var_resolution,
                   interpreter, pc>>

\* Parser::parse returned Ok(stmts), then Resolver::new(..).resolve(&program)
RunResolve ==
    /\ run_state = "parse"
    /\ peek_type(parser) = ""
    /\ parse_errs = <<>>
    /\ program' = parse_stmts
    /\ var_resolution' = resolve_stmts(ast_arena, ResolverNew(var_resolution), parse_stmts).vr
    /\ pc' = 1
    /\ run_state' = "interpret"
    /\ UNCHANGED <<procvars, vmvars, source, lexvars, parsevars, ast_arena, interpreter, reported>>

\* Interpreter::interpret, a turn of the loop that ends with Ok(())
InterpretStatement ==
    /\ run_state = "interpret"
    /\ pc <= Len(program)
    /\ \E now \in Times :
         \E r \in {interpret_statement(Context(now), interpreter, program[pc])} :
             /\ r.cf = "Ok"
             /\ interpreter' = r.st
    /\ pc' = pc + 1
    /\ UNCHANGED <<procvars, vmvars, source, lexvars, parsevars, ast_arena, program, var_resolution,
                   reported, run_state>>

\* Interpreter::interpret returns Err(runtime): it is reported and run returns
RunRuntimeErr ==
    /\ run_state = "interpret"
    /\ pc <= Len(program)
    /\ \E now \in Times :
         \E r \in {interpret_statement(Context(now), interpreter, program[pc])} :
             /\ r.cf = "Error"
             /\ interpreter' = r.st
             /\ reported' = report_all(reported, <<RuntimeError(r.err)>>)
    /\ run_state' = "RuntimeErr"
    /\ UNCHANGED <<procvars, vmvars, source, lexvars, parsevars, ast_arena, program, var_resolution, pc>>

\* the calls nest deeper than the stack allows and the process is aborted,
\* or a loop runs on beyond MaxLoops turns: run does not return
RunAbort ==
    /\ run_state = "interpret"
    /\ pc <= Len(program)
    /\ \E now \in Times :
         \E r \in {interpret_statement(Context(now), interpreter, program[pc])} :
             r.cf = "Abort"
    /\ run_state' = "abort"
    /\ UNCHANGED <<procvars, vmvars, source, lexvars, parsevars, ast_arena, program, var_resolution,
                   interpreter, pc, reported>>

\* Interpreter::interpret returns Ok(()), and so does run
RunOk ==
    /\ run_state = "interpret"
    /\ pc > Len(program)
    /\ run_state' = "Ok"
    /\ UNCHANGED <<procvars, vmvars, source, lexvars, parsevars, ast_arena, program, var_resolution,
                   interpreter, pc, reported>>

(***************************************************************************)
(* run_prompt (rlox-tree-walk/src/lib.rs): one interpreter and one arena   *)
(* for the whole session, one call of run per line.                        *)
(***************************************************************************)
\* run_prompt is at the top of its loop: before the first line, or run has
\* returned and its result was dropped by `let _ =`
AtPrompt == run_state \in {"prompt", "Ok", "LexErr", "ParseErr", "RuntimeErr"}

\* a session in which every line is run by an interpreter of its own
PromptReadLine_fresh ==
    /\ argv = PromptArgs
    /\ AtPrompt
    /\ stdin.next <= Len(stdin.lines)
    /\ source' = stdin.lines[stdin.next]
    /\ stdin' = [stdin EXCEPT !.next = @ + 1]
    /\ scanner' = ScannerNew(source')
    /\ tokens' = <<>>
    /\ errors' = <<>>
    /\ scan_state' = "loop"
    /\ parser' = NoParser
    /\ parse_stmts' = <<>>
    /\ parse_errs' = <<>>
    /\ program' = <<>>
    /\ pc' = 0
    /\ run_state' = "scan"
    /\ interpreter' = [InterpreterNew EXCEPT !.out = interpreter.out]
    /\ UNCHANGED <<argv, exit_code, vmvars, ast_arena, var_resolution, reported>>

\* read_line gave a line: run(line, &mut interpreter, &mut ast_arena)
PromptReadLine ==
    /\ argv = PromptArgs
    /\ AtPrompt
    /\ stdin.next <= Len(stdin.lines)
    /\ source' = stdin.lines[stdin.next]
    /\ stdin' = [stdin EXCEPT !.next = @ + 1]
    /\ scanner' = ScannerNew(source')
    /\ tokens' = <<>>
    /\ errors' = <<>>
    /\ scan_state' = "loop"
    /\ parser' = NoParser
    /\ parse_stmts' = <<>>
    /\ parse_errs' = <<>>
    /\ program' = <<>>
    /\ pc' = 0
    /\ run_state' = "scan"
    /\ UNCHANGED <<argv, exit_code, vmvars, ast_arena, var_resolution, interpreter, reported>>

\* read_line read nothing: break, and run_prompt returns Ok(())
PromptEof ==
    /\ argv = PromptArgs
    /\ AtPrompt
    /\ stdin.next > Len(stdin.lines)
    /\ run_state' = "eof"
    /\ UNCHANGED <<procvars, vmvars, source, lexvars, parsevars, ast_arena, program,
                   var_resolution, interpreter, pc, reported>>

(***************************************************************************)
(* The scanner on every short text over an alphabet with one character of  *)
(* each kind the scanner distinguishes.                                    *)
(***************************************************************************)
LexAlphabet == {"1", ".", "a", "\"", "@", "/", "\n", "="}

RECURSIVE Texts(_)
Texts(n) ==
    IF n = 0 THEN {""}
    ELSE LET shorter == Texts(n - 1)
         IN  shorter \cup {t \o c : t \in {u \in shorter : Len(u) = n - 1}, c \in LexAlphabet}

\* run(source, &mut Interpreter::new(), &mut AstArena::default()), as run_file calls it
RunInit(sources) ==
    /\ source \in sources
    /\ scanner = ScannerNew(source)
    /\ tokens = <<>>
    /\ errors = <<>>
    /\ scan_state = "loop"
    /\ parser = NoParser
    /\ parse_stmts = <<>>
    /\ parse_errs = <<>>
    /\ ast_arena = AstArenaDefault
    /\ program = <<>>
    /\ var_resolution = <<>>
    /\ interpreter = InterpreterNew
    /\ pc = 0
    /\ reported = <<>>
    /\ run_state = "scan"
    /\ argv = ScriptArgs
    /\ stdin = Stdin(<<>>)
    /\ exit_code = Running
    /\ NoVm

LexInit == RunInit(Texts(MaxSrcLen))

LexNext == ScanPush \/ ScanError \/ ScanPanic \/ ScanBreak

SpecLex == LexInit /\ [][LexNext]_vars

(***************************************************************************)
(* run_file on programs that exercise closures, calls, scopes and errors,  *)
(* and on every very short text.                                           *)
(***************************************************************************)
SrcCounter ==
    "fun make(){ var x = 0; fun inc(){ x = x+1; return x; } return inc; } var c = make(); print c(); print c();"

SrcStatic ==
    "var a = \"global\"; fun show(){ print a; } fun caller(){ var a = \"local\"; show(); } caller();"

SrcCallerLocal ==
    "fun show(){ print b; } fun caller(){ var b = 1; show(); } caller(); print 3;"

SrcRestore ==
    "fun f(p){ var q = 2; return p; } fun g(p){ } fun e(p){ return nope; } { var a = 1; print f(5); print a; print g(6); print a; e(7); print a; }"

SrcParamGone ==
    "fun f(p){ var q = 2; return p; } { var a = 1; f(5); print a; print p; }"

SrcShared ==
    "var g = 1; fun s(){ g = 2; } s(); print g; var set; var get; fun mk(){ var x = 0; fun st(){ x = 5; } fun gt(){ return x; } set = st; get = gt; st(); print x; x = 7; } mk(); print get(); set(); print get();"

SrcShadow ==
    "var a = \"global\"; { fun showA(){ print a; } showA(); var a = \"block\"; showA(); print a; }"

SrcRecGlobal ==
    "fun f(n){ if (n <= 0) return 0; return n + f(n - 1); } print f(2);"

SrcRecBlock ==
    "{ fun f(n){ if (n <= 0) return 0; return n + f(n - 1); } print f(2); }"

SrcRecNested ==
    "fun o(){ fun f(n){ if (n <= 0) return 0; return n + f(n - 1); } return f(1); } print o();"

SrcExits ==
    "clock(); fun f(){ { var x = 1; return x; } } print f(); fun h(){ var i = 0; while (i < 2) { i = i + 1; } } h(); fun g(){ { print nope; } } { g(); }"

SrcDeep == "fun f(){ f(); } f();"

SrcLexErrs == "print 1; @ var a = 2; # print a;"

SrcParseErrs == "print 1; var = 2; print 3 print 4; print 5;"

SrcTopReturn == "print 1; return 2; print 3;"

SrcSync == "var = 1; print 2 3 var b; print 4 print 5; print 6;"

SrcBadTarget == "1 = 2; print 3; a + b = c print 4; print 5;"

SrcRuntimeStop ==
    "var a = 1; print a; { a = 2; print a + nil; a = 3; } print a; var b = 4;"

\* a literal as written and the value it denotes
Lit(text, v) == [text |-> text, v |-> v]

LitNil == Lit("nil", ObjNil)

LitFalse == Lit("false", ObjBool(FALSE))

LitTrue == Lit("true", ObjBool(TRUE))

LitZero == Lit("0", Num(0, 1))

LitOne == Lit("1", Num(1, 1))

LitS == Lit("\"s\"", ObjStr("s"))

LitT == Lit("\"t\"", ObjStr("t"))

\* the left and right operands of the logical expressions
LeftOperands == {LitNil, LitFalse, LitTrue, LitZero, LitS}

RightOperands == {LitNil, LitFalse, LitOne, LitT}

\* a logical expression whose right operand counts its evaluations
LogicalSrc(op, a, b) ==
    "var n = 0; fun b(){ n = n + 1; return " \o b \o "; } print " \o a \o " " \o op \o " b(); print n;"

LogicalPrograms ==
    {LogicalSrc(op, a.text, b.text) : op \in {"and", "or"}, a \in LeftOperands, b \in RightOperands}

Programs ==
    {SrcCounter, SrcStatic, SrcCallerLocal, SrcRestore, SrcParamGone, SrcShared, SrcShadow,
     SrcRecGlobal, SrcRecBlock, SrcRecNested, SrcExits, SrcDeep, SrcLexErrs, SrcParseErrs,
     SrcTopReturn, SrcRuntimeStop, SrcSync, SrcBadTarget}

\* the operands of the comparisons
CmpOperands == {LitNil, LitFalse, LitTrue, LitZero, LitOne, LitS, LitT}

CmpOps == {"<", "<=", ">", ">="}

CmpSrc(op, a, b) == "print " \o a \o " " \o op \o " " \o b \o ";"

CmpPrograms == {CmpSrc(op, a.text, b.text) : op \in CmpOps, a \in CmpOperands, b \in CmpOperands}

\* a callee as written and its arity, -1 for a value that is not callable
Callee(text, n) == [text |-> text, arity |-> n]

Callees == {Callee("f", 2), Callee("g", 0), Callee("clock", 0), Callee("nil", -1),
            Callee("\"s\"", -1), Callee("1", -1)}

\* the most arguments of a call
MaxArgs == 3

\* n arguments, each recording its evaluation
RECURSIVE ArgsText(_)
ArgsText(n) ==
    IF n = 0 THEN ""
    ELSE (IF n = 1 THEN "" ELSE ArgsText(n - 1) \o ", ") \o "t(\"" \o ToString(n) \o "\")"

CallSrc(callee, n) ==
    "var s = \"\"; fun t(x){ s = s + x; return x; } fun f(a, b){ print a + b; } fun g(){ print \"g\"; } "
    \o callee \o "(" \o ArgsText(n) \o "); print s;"

SrcCallOrder ==
    "var s = \"\"; fun t(x){ s = s + x; return x; } fun f(a, b){ } fun pick(){ s = s + \"c\"; return f; } pick()(t(\"1\"), t(\"2\")); print s; pick()(t(\"3\"));"

CallPrograms == {CallSrc(c.text, n) : c \in Callees, n \in 0..MaxArgs} \cup {SrcCallOrder}

\* the operand of a return statement; a bare `return;` has none
ReturnOperands == {Lit("", ObjNil), LitNil, LitOne, LitS}

ReturnText(r) == "return" \o (IF r.text = "" THEN "" ELSE " " \o r.text) \o ";"

\* a return statement nested in blocks, if statements and while loops
Nestings ==
    {[pre |-> "", post |-> ""],
     [pre |-> "{ ", post |-> " }"],
     [pre |-> "{ { ", post |-> " print \"b\"; } print \"c\"; }"],
     [pre |-> "if (true) ", post |-> ""],
     [pre |-> "if (false) print \"t\"; else ", post |-> ""],
     [pre |-> "while (true) ", post |-> ""],
     [pre |-> "while (true) { if (true) { ", post |-> " } print \"w\"; }"]}

ReturnSrc(w, r) ==
    "fun f(){ print \"in\"; " \o w.pre \o ReturnText(r) \o w.post
    \o " print \"after\"; } print f(); print \"done\";"

SrcNoReturn == "fun f(){ print \"in\"; { if (true) print \"b\"; } } print f(); print \"done\";"

ReturnPrograms == {ReturnSrc(w, r) : w \in Nestings, r \in ReturnOperands} \cup {SrcNoReturn}

\* assignments to c where no walked scope defines c
SrcAssignTop == "var a = 1; c = 3; print a;"

SrcAssignBlock == "var a = 1; { var b = 2; c = 3; print b; } print a;"

SrcAssignFn == "var a = 1; fun f(c1){ c = c1; print c1; } f(3); print a;"

SrcAssignHidden == "var a = 1; { var c = 2; } { var b = 2; c = 3; print b; } print a;"

AssignUndefined == {SrcAssignTop, SrcAssignBlock, SrcAssignFn, SrcAssignHidden}

AssignValues == {LitNil, LitTrue, LitOne, LitS}

\* an assignment to a, which the enclosing block and the global scope define
AssignSrc(v) ==
    "var a = 0; { var a = 1; { var b = 2; print a = " \o v \o "; print b; } print a; } print a;"

AssignPrograms == AssignUndefined \cup {AssignSrc(v.text) : v \in AssignValues}

\* a for loop, the block and while loop it stands for, and what both print
\* before they end
Loop(for, while, out, end) == [for |-> for, while |-> while, out |-> out, end |-> end]

LoopSum ==
    Loop("var a = 0; for (var i = 0; i < 3; i = i + 1) a = a + i; print a;",
         "var a = 0; { var i = 0; while (i < 3) { a = a + i; i = i + 1; } } print a;",
         <<Num(3, 1)>>, "Ok")

LoopScope ==
    Loop("for (var i = 0; i < 1; i = i + 1) print i; print i;",
         "{ var i = 0; while (i < 1) { print i; i = i + 1; } } print i;",
         <<Num(0, 1)>>, "RuntimeErr")

LoopForever ==
    Loop("fun f(){ for (var i = 0;; i = i + 1) { print i; if (i >= 1) return i; } } print f();",
         "fun f(){ { var i = 0; while (true) { { print i; if (i >= 1) return i; } i = i + 1; } } } print f();",
         <<Num(0, 1), Num(1, 1), Num(1, 1)>>, "Ok")

LoopOrder ==
    Loop("fun p(x){ print x; return true; } var n = 0; for (p(\"i\"); p(\"c\") and n < 2; p(\"n\")) { p(\"b\"); n = n + 1; }",
         "fun p(x){ print x; return true; } var n = 0; { p(\"i\"); while (p(\"c\") and n < 2) { { p(\"b\"); n = n + 1; } p(\"n\"); } }",
         <<ObjStr("i"), ObjStr("c"), ObjStr("b"), ObjStr("n"), ObjStr("c"), ObjStr("b"),
           ObjStr("n"), ObjStr("c")>>, "Ok")

LoopBare ==
    Loop("var i = 0; for (; i < 2;) { print i; i = i + 1; } print i;",
         "var i = 0; while (i < 2) { print i; i = i + 1; } print i;",
         <<Num(0, 1), Num(1, 1), Num(2, 1)>>, "Ok")

Loops == {LoopSum, LoopScope, LoopForever, LoopOrder, LoopBare}

LoopPrograms == {l.for : l \in Loops} \cup {l.while : l \in Loops}

\* the scopes around a reference: the global scope and two nested blocks
Levels == {0, 1, 2}

\* the references to a: a read and an assignment
References == {"print a;", "a = 9;"}

\* a reference to a in the inner block, with a declared at the levels D
ScopeSrc(D, ref) ==
    (IF 0 \in D THEN "var a = 0; " ELSE "") \o "var b = 7; { "
    \o (IF 1 \in D THEN "var a = 1; " ELSE "") \o "{ var b = 8; "
    \o (IF 2 \in D THEN "var a = 2; " ELSE "") \o ref \o " } }"

ScopePrograms == {ScopeSrc(D, ref) : D \in SUBSET Levels, ref \in References}

\* a program referring to a name that no scope declares where the resolver
\* meets the reference, what it prints and how it ends
Late(src, out, end) == [src |-> src, out |-> out, end |-> end]

LateGlobal == Late("fun f(){ print a; } var a = 1; f();", <<Num(1, 1)>>, "Ok")

LateAssign == Late("fun f(){ a = 5; } var a = 1; f(); print a;", <<Num(5, 1)>>, "Ok")

LateTwice ==
    Late("fun f(){ print a; } var a = 1; f(); var a = 2; f();", <<Num(1, 1), Num(2, 1)>>, "Ok")

LateNested ==
    Late("{ fun f(){ { print a; } } var a = 1; { var b = 2; f(); } }", <<>>, "RuntimeErr")

LateInBlock ==
    Late("{ fun f(){ { print a; } } { var b = 2; f(); } } print 3;", <<>>, "RuntimeErr")

LateCalledInBlock ==
    Late("fun f(){ { print a; } } var a = 1; { var a = 2; { f(); } }", <<Num(1, 1)>>, "Ok")

LateNever == Late("fun f(){ print a; } print 0; f(); var a = 1;", <<Num(0, 1)>>, "RuntimeErr")

LateTop == Late("print 0; print a; var a = 1;", <<Num(0, 1)>>, "RuntimeErr")

Lates == {LateGlobal, LateAssign, LateTwice, LateNested, LateInBlock,
          LateCalledInBlock, LateNever, LateTop}

LatePrograms == {l.src : l \in Lates}

\* closing braces and parentheses where a declaration should start
SrcStray == "print 1; } print 2; ) } var a = 3; print a; }"

\* an operand of a comparison with a function: its text, the declared name
\* when it is a user function ("" otherwise) and what tells it from the
\* other operands that are no user functions
Operand(text, name, v) == [text |-> text, name |-> name, v |-> v]

\* f and g are one function, k is another function named f, with a
\* parameter, another body and the environment of a call; h has f's
\* parameters and body under another name
FunOperands == {Operand("f", "f", 0), Operand("g", "f", 0), Operand("k", "f", 0),
                Operand("h", "h", 0)}

OtherOperands == <<Operand("nil", "", 1), Operand("true", "", 2), Operand("1", "", 3),
                   Operand("\"f\"", "", 4), Operand("clock", "", 5)>>

AllOperands ==
    <<Operand("f", "f", 0), Operand("g", "f", 0), Operand("k", "f", 0), Operand("h", "h", 0)>>
    \o OtherOperands

RECURSIVE FunEqPrints(_, _)
FunEqPrints(a, i) ==
    IF i > Len(AllOperands) THEN ""
    ELSE " print " \o a \o " == " \o AllOperands[i].text \o "; print " \o AllOperands[i].text
         \o " == " \o a \o "; print " \o a \o " != " \o AllOperands[i].text \o ";"
         \o FunEqPrints(a, i + 1)

FunEqSrc(a) ==
    "fun f(){ return 1; } var g = f; fun h(){ return 1; } fun mk(){ var n = 0; fun f(x){ return n; } return f; } var k = mk();"
    \o FunEqPrints(a, 1)

FunEqPrograms == {FunEqSrc(a.text) : a \in FunOperands}

ExprPrograms == LogicalPrograms \cup CmpPrograms \cup CallPrograms
                \cup ReturnPrograms \cup AssignPrograms
                \cup LoopPrograms \cup ScopePrograms
                \cup LatePrograms \cup {SrcStray} \cup FunEqPrograms

Init == RunInit(Programs \cup Texts(MaxJunkLen) \cup ExprPrograms)

Next ==
    \/ ScanPush
    \/ ScanError
    \/ ScanPanic
    \/ ScanBreak
    \/ RunLexErr
    \/ RunParser
    \/ ParseDeclaration
    \/ ParseError
    \/ RunParseErr
    \/ RunResolve
    \/ InterpretStatement
    \/ RunRuntimeErr
    \/ RunAbort
    \/ RunOk

Spec == Init /\ [][Next]_vars

(***************************************************************************)
(* run_prompt on every short session made of lines that define, fail in    *)
(* each phase, use what earlier lines defined, or end the process.         *)
(***************************************************************************)
\* the most lines of a session
MaxLines == 3

LineDefs == "var a=1; fun f(){return a;}\n"

LineUse == "print f();\n"

LineLexErr == "@\n"

LineParseErr == "var z=;\n"

LineRuntimeErr == "var b=2; nope; var c=3;\n"

LinePanic == "@1\n"

LineDeep == "fun g(){g();} g();\n"

Lines == {LineDefs, LineUse, LineLexErr, LineParseErr, LineRuntimeErr, LinePanic, LineDeep}

RECURSIVE Sessions(_)
Sessions(n) ==
    IF n = 0 THEN {<<>>}
    ELSE LET shorter == Sessions(n - 1)
         IN  shorter \cup {Append(t, l) : t \in {u \in shorter : Len(u) = n - 1}, l \in Lines}

\* run_prompt(): Interpreter::new(), AstArena::default(), nothing read yet
PromptInit ==
    /\ argv = PromptArgs
    /\ stdin \in {Stdin(lines) : lines \in Sessions(MaxLines)}
    /\ exit_code = Running
    /\ NoVm
    /\ source = ""
    /\ scanner = ScannerNew("")
    /\ tokens = <<>>
    /\ errors = <<>>
    /\ scan_state = "loop"
    /\ parser = NoParser
    /\ parse_stmts = <<>>
    /\ parse_errs = <<>>
    /\ ast_arena = AstArenaDefault
    /\ program = <<>>
    /\ var_resolution = <<>>
    /\ interpreter = InterpreterNew
    /\ pc = 0
    /\ reported = <<>>
    /\ run_state = "prompt"

PromptNext == Next \/ PromptReadLine \/ PromptEof

SpecPrompt == PromptInit /\ [][PromptNext]_vars

(***************************************************************************)
(* The chunk builder: every short sequence of calls of the Chunk methods,  *)
(* from an empty chunk and from one whose pool is almost full, then the    *)
(* disassembler.                                                           *)
(***************************************************************************)
\* rlox-compiler's main: no script, no prompt, no tree-walk run
NoRun ==
    /\ argv = <<"rlox-compiler">>
    /\ stdin = Stdin(<<>>)
    /\ exit_code = Running
    /\ source = ""
    /\ scanner = ScannerNew("")
    /\ tokens = <<>>
    /\ errors = <<>>
    /\ scan_state = "loop"
    /\ parser = NoParser
    /\ parse_stmts = <<>>
    /\ parse_errs = <<>>
    /\ ast_arena = AstArenaDefault
    /\ program = <<>>
    /\ var_resolution = <<>>
    /\ interpreter = InterpreterNew
    /\ pc = 0
    /\ reported = <<>>
    /\ run_state = "vm"

ChunkInit ==
    /\ NoRun
    /\ chunk \in {ChunkDefault, Prefilled}
    /\ emitted = <<>>
    /\ listing = <<>>
    /\ vm = VirtualMachineDefault

ChunkNext ==
    \/ Write
    \/ WriteWithLine
    \/ AddConstant
    \/ WriteConstant
    \/ WriteConstantWithLine
    \/ Disassemble

SpecChunk == ChunkInit /\ [][ChunkNext]_vars

(***************************************************************************)
(* The stack machine on every chunk that a short sequence of write and     *)
(* write_constant calls builds, and on the chunk of each single opcode.    *)
(***************************************************************************)
\* a call that writes an instruction: write(instruction) or write_constant(value)
Call(fn, instruction, value) == [fn |-> fn, op |-> instruction, value |-> value]

VmCalls ==
    {Call("write", instruction, Num(0, 1)) : instruction \in {NoOp, Return, Neg, Add, Sub, Mul, Div}}
    \cup {Call("write_constant", NoOp, value) : value \in Values}

RECURSIVE CallSeqs(_)
CallSeqs(n) ==
    IF n = 0 THEN {<<>>}
    ELSE LET shorter == CallSeqs(n - 1)
         IN  shorter \cup {Append(t, c) : t \in {u \in shorter : Len(u) = n - 1}, c \in VmCalls}

VmPrograms == CallSeqs(MaxOps) \cup {<<Call("write", instruction, Num(0, 1))>> : instruction \in OpCodes}

\* the chunk the calls build from Chunk::default(), and the instructions written
RECURSIVE Built(_)
Built(calls) ==
    IF calls = <<>>
    THEN [chunk |-> ChunkDefault, emitted |-> <<>>]
    ELSE LET prev == Built(SubSeq(calls, 1, Len(calls) - 1))
             c == calls[Len(calls)]
         IN IF c.fn = "write"
            THEN [chunk |-> write(prev.chunk, c.op), emitted |-> Append(prev.emitted, c.op)]
            ELSE [chunk |-> write_constant(prev.chunk, c.value).chunk,
                  emitted |-> Append(prev.emitted, Constant(write_constant(prev.chunk, c.value).addr))]

VmInit ==
    /\ NoRun
    /\ \E calls \in VmPrograms :
          /\ chunk = Built(calls).chunk
          /\ emitted = Built(calls).emitted
    /\ listing = <<>>
    /\ vm = VirtualMachineDefault

VmNext == Disassemble \/ VmStep \/ VmEnd

SpecVm == VmInit /\ [][VmNext]_vars

(***************************************************************************)
(* The rlox binary (src/src/main.rs): the command line is dispatched, the  *)
(* script or the session runs as above, and the process ends with the exit *)
(* code Rust derives from what main returns.                               *)
(***************************************************************************)
\* rlox a.lox b.lox
UsageArgs == <<"rlox", "a.lox", "b.lox">>

\* rlox missing.lox, a file that cannot be read
MissingArgs == <<"rlox", "missing.lox">>

\* impl Termination for Error (src/src/error.rs) over impl Termination for
\* the interpreter's Error (rlox-report/src/error.rs): the exit code of an error
Error_report(err) ==
    CASE err = "CliErr" -> 64
      [] err \in {"LexErr", "ParseErr", "PassErr"} -> 65
      [] err = "RuntimeErr" -> 70
      [] OTHER -> 1

\* std's impl Termination for Result<(), E>, the one that applies to what
\* main returns: ExitCode::SUCCESS for Ok(()), ExitCode::FAILURE for every Err
Result_report(result) == IF result \in {"Ok", "eof"} THEN 0 ELSE 1

\* main, the match on args: run_prompt, rlox_vm::run_file, run_file (whose
\* read_to_string fails on a file that is not script.lox) or Err(Error::Cli)
Main ==
    /\ run_state = "main"
    /\ run_state' = CASE Len(argv) = 1 -> "prompt"
                      [] Len(argv) = 3 /\ argv[2] = "--vm" -> "vm"
                      [] Len(argv) = 2 -> IF argv = ScriptArgs THEN "scan" ELSE "OtherErr"
                      [] OTHER -> "CliErr"
    /\ UNCHANGED <<procvars, vmvars, source, lexvars, parsevars, ast_arena, program, var_resolution,
                   interpreter, pc, reported>>

\* main has returned: a script's run() is over, the session met the end of
\* standard input, or main failed before either
Returned ==
    \/ run_state \in {"CliErr", "OtherErr", "eof"}
    \/ argv = ScriptArgs /\ run_state \in {"Ok", "LexErr", "ParseErr", "RuntimeErr"}

\* the process ends: main returns its Result to the runtime, or a panic of
\* the scanner unwinds through main
ProcessExit ==
    /\ exit_code = Running
    /\ \/ /\ scan_state = "panic"
          /\ exit_code' = PanicExit
       \/ /\ scan_state # "panic"
          /\ Returned
          /\ exit_code' = Result_report(run_state)
    /\ UNCHANGED <<argv, stdin, vmvars, source, lexvars, parsevars, runvars>>

MainArgs == {PromptArgs, ScriptArgs, MissingArgs, UsageArgs}

MainInit ==
    /\ argv \in MainArgs
    /\ source \in (IF argv = ScriptArgs THEN Programs \cup Texts(MaxJunkLen) ELSE {""})
    /\ stdin \in (IF argv = PromptArgs THEN {Stdin(lines) : lines \in Sessions(1)} ELSE {Stdin(<<>>)})
    /\ exit_code = Running
    /\ NoVm
    /\ scanner = ScannerNew(source)
    /\ tokens = <<>>
    /\ errors = <<>>
    /\ scan_state = "loop"
    /\ parser = NoParser
    /\ parse_stmts = <<>>
    /\ parse_errs = <<>>
    /\ ast_arena = AstArenaDefault
    /\ program = <<>>
    /\ var_resolution = <<>>
    /\ interpreter = InterpreterNew
    /\ pc = 0
    /\ reported = <<>>
    /\ run_state = "main"

MainNext == Main \/ PromptNext \/ ProcessExit

SpecMain == MainInit /\ [][MainNext]_vars

(***************************************************************************)
(* Claims about the scanner.                                               *)
(***************************************************************************)
\* the erroneous lexemes of a text, counted without the scanner: outside
\* strings and comments every character that starts no lexeme is one, and a
\* quote with no closing quote is one and ends the text
LexemeStart(c) ==
    \/ is_alphanumeric(c)
    \/ c \in {"(", ")", "{", "}", ",", ".", "-", "+", ";", "*", "!", "=", "<", ">", "/",
              " ", "\r", "\t", "\n", "\"", "_"}

RECURSIVE ErroneousLexemes(_)
ErroneousLexemes(s) ==
    IF s = "" THEN 0
    ELSE LET c    == Char(s, 1)
             rest == SubSeq(s, 2, Len(s))
         IN  CASE c = "\"" ->
                    IF take_while(rest, NotQuote) = Len(rest) THEN 1
                    ELSE ErroneousLexemes(SubSeq(rest, take_while(rest, NotQuote) + 2, Len(rest)))
               [] c = "/" /\ rest # "" /\ Char(rest, 1) = "/" ->
                    ErroneousLexemes(SubSeq(rest, take_while(rest, NotNewline) + 1, Len(rest)))
               [] ~LexemeStart(c) -> 1 + ErroneousLexemes(rest)
               [] OTHER -> ErroneousLexemes(rest)

\* C8: scan_tokens never aborts; when it returns Ok the last token is Eof,
\* and when it returns Err the list of errors is not empty.
C8_LexerTotality ==
    /\ scan_state # "panic"
    /\ scan_state = "Ok" => tokens # <<>> /\ tokens[Len(tokens)].ty.ty = "Eof"
    /\ scan_state = "Err" => errors # <<>>

\* C9: once the scanner has found an error it still scans the whole text
\* and returns Err with one error per erroneous lexeme, in source order.
C9_AllErrorsReturned ==
    (scan_state # "loop" /\ ErroneousLexemes(source) > 0) =>
        /\ scan_state = "Err"
        /\ Len(errors) = ErroneousLexemes(source)
        /\ \A i \in 1..Len(errors) - 1 : errors[i].span.end < errors[i + 1].span.end

\* what holds of C9 when the scanner does not abort (not a claim's formula)
LexErrorsWhenNoPanic ==
    (scan_state \in {"Ok", "Err"}) =>
        /\ Len(errors) = ErroneousLexemes(source)
        /\ (scan_state = "Err") = (ErroneousLexemes(source) > 0)
        /\ \A i \in 1..Len(errors) - 1 : errors[i].span.end < errors[i + 1].span.end



(***************************************************************************)
(* Claims about scopes, calls and closures.                                *)
(***************************************************************************)
\* run has returned, or the process was aborted
Finished == run_state \in {"Ok", "LexErr", "ParseErr", "RuntimeErr", "abort"}

\* the number of scopes of the environment with the handle end
ScopeDepth(end) == Len(chain_iter(interpreter.frames, end))

\* the exits of blocks and calls so far, as pairs of kind and ending
ExitPaths == {<<interpreter.log[i].kind, interpreter.log[i].cf>> : i \in DOMAIN interpreter.log}

\* the exits of user-function calls so far
CallExits == {i \in DOMAIN interpreter.log : interpreter.log[i].kind = "call"}

NothingExecuted == interpreter = InterpreterNew /\ pc = 0 /\ var_resolution = <<>>

\* C10: when the scanner or the parser reports an error, every error of
\* that phase is reported, in the order found, and no statement is executed.
C10_ErrorsEndRun ==
    /\ run_state = "LexErr" =>
           /\ reported = errors
           /\ Len(reported) = ErroneousLexemes(source)
           /\ NothingExecuted
    /\ run_state = "ParseErr" =>
           /\ reported = parse_errs
           /\ reported # <<>>
           /\ NothingExecuted
    /\ (errors # <<>> \/ parse_errs # <<>>) => NothingExecuted

\* the parser has reported two errors of a source whose first statement is
\* a well-formed print
C10_TwoParseErrors ==
    /\ source = SrcParseErrs
    /\ run_state = "ParseErr"
    /\ Len(reported) = 2
    /\ parse_stmts # <<>>

\* what Global gives for a name that is not defined
Undefined == Object("undefined", 0, "", 0, 0)

\* the value of the global variable name
Global(name) ==
    LET globals == interpreter.frames[EnvironmentNew.end].value
    IN  IF name \in DOMAIN globals THEN globals[name] ELSE Undefined

\* C11: when a statement of a script raises a runtime error the run ends
\* there with that one error reported: what the statements before it printed
\* and defined stands, and no later statement is executed.
C11_RuntimeErrorStops ==
    /\ run_state = "RuntimeErr" =>
           /\ pc \in 1..Len(program)
           /\ Len(reported) = 1
    /\ run_state = "Ok" => reported = <<>>
    /\ (source = SrcRuntimeStop /\ Finished) =>
           /\ run_state = "RuntimeErr"
           /\ pc = 3
           /\ interpreter.out = <<Num(1, 1)>>
           /\ Global("a") = Num(2, 1)
           /\ Global("b") = Undefined
    /\ (source = SrcTopReturn /\ Finished) =>
           /\ run_state = "RuntimeErr"
           /\ pc = 2
           /\ interpreter.out = <<Num(1, 1)>>

\* the third of five statements has raised a runtime error after the first
\* two had defined a variable and printed it
C11_StoppedInTheMiddle ==
    /\ source = SrcRuntimeStop
    /\ run_state = "RuntimeErr"
    /\ pc = 3
    /\ Len(program) = 5
    /\ Len(interpreter.out) = 1
    /\ reported = <<RuntimeError("Invalid operand: Objects not both String or f64")>>

(***************************************************************************)
(* Claims about run_prompt.                                                *)
(***************************************************************************)
\* the number of lines of the session whose run has ended
LinesRun ==
    IF run_state \in {"scan", "parse", "interpret"} THEN stdin.next - 2 ELSE stdin.next - 1

\* line i is LineUse and comes after a line that defined f
UsesDefined(i) ==
    /\ stdin.lines[i] = LineUse
    /\ \E j \in 1..i - 1 : stdin.lines[j] = LineDefs

\* line i ends with an error reported
LineFails(i) ==
    \/ stdin.lines[i] \in {LineLexErr, LineParseErr, LineRuntimeErr}
    \/ stdin.lines[i] = LineUse /\ ~UsesDefined(i)

\* C12: a line that fails in the scanner, the parser or the evaluator does
\* not end the session: the next line is read and run, and what earlier
\* lines defined, the statements of a line before its runtime error
\* included, is still defined with its value.
C12_SessionGoesOn ==
    /\ \A i \in 1..LinesRun :
           /\ stdin.lines[i] = LineDefs =>
                  Global("a") = Num(1, 1) /\ Global("f") # Undefined
           /\ stdin.lines[i] = LineRuntimeErr =>
                  Global("b") = Num(2, 1) /\ Global("c") = Undefined
    /\ (AtPrompt \/ run_state = "eof") =>
           /\ interpreter.out =
                  [k \in 1..Cardinality({i \in 1..LinesRun : UsesDefined(i)}) |-> Num(1, 1)]
           /\ Len(reported) = Cardinality({i \in 1..LinesRun : LineFails(i)})
    /\ (AtPrompt /\ stdin.next <= Len(stdin.lines)) => ENABLED PromptReadLine
    /\ run_state = "eof" => stdin.next = Len(stdin.lines) + 1

\* a session has ended at the end of input after a line that defined a
\* function, a line that failed at run time after defining b, and a line
\* that called the function
C12_FailedLineThenUse ==
    /\ stdin.lines = <<LineDefs, LineRuntimeErr, LineUse>>
    /\ run_state = "eof"
    /\ interpreter.out = <<Num(1, 1)>>
    /\ Global("b") = Num(2, 1)
    /\ Len(reported) = 1

(***************************************************************************)
(* Claims about the parser's error recovery.                               *)
(***************************************************************************)
\* the parser has just pushed an error: the error
NewParseError == parse_errs'[Len(parse_errs')]

ParseErrorStep == run_state = "parse" /\ Len(parse_errs') = Len(parse_errs) + 1

\* the tokens ahead when declaration returned the error
TokensAtError == declaration(parser).p.tokens

\* the tokens that begin a declaration
DeclarationStart == {"Class", "For", "Fun", "If", "Print", "Return", "Var", "While"}

\* the number of tokens of toks that panic mode is to discard: the tokens up
\* to and including the first semicolon, or the tokens before the first
\* token that begins a declaration, whichever are fewer; all of them when
\* there is neither
Discarded(toks) ==
    LET stops == {k \in 0..Len(toks) :
                     \/ k >= 1 /\ toks[k].ty.ty = "Semicolon"
                     \/ k < Len(toks) /\ toks[k + 1].ty.ty \in DeclarationStart}
    IN  IF stops = {} THEN Len(toks)
        ELSE CHOOSE k \in stops : \A j \in stops : k <= j

\* C13: after a parse error whose should_sync flag is set the parser
\* discards the tokens up to and including the next semicolon, or stops
\* before the next token that begins a declaration, and goes on parsing
\* declarations from there.
C13_PanicModeSync ==
    [][(ParseErrorStep /\ NewParseError.should_sync) =>
           /\ parser'.tokens =
                  SubSeq(TokensAtError, Discarded(TokensAtError) + 1, Len(TokensAtError))
           /\ parse_stmts' = parse_stmts
           /\ run_state' = "parse"]_vars

\* what the parser does (not a claim's formula): synchronize discards the
\* token it stands at without looking at it for the start of a declaration
SyncAsCoded ==
    [][(ParseErrorStep /\ NewParseError.should_sync /\ TokensAtError # <<>>) =>
           parser'.tokens =
               SubSeq(Tail(TokensAtError), Discarded(Tail(TokensAtError)) + 1,
                      Len(TokensAtError) - 1)
           \/ (TokensAtError[1].ty.ty = "Semicolon" /\ parser'.tokens = Tail(TokensAtError))]_vars

\* the messages of the errors of the assignment-target check and of the
\* checks of the number of parameters and arguments
LocalErrors ==
    {"Invalid assignment target.", "Can't have more than 255 parameters.",
     "Can't have more than 255 arguments."}

\* C14: an error of the invalid-assignment-target check or of a 255-limit
\* check does not start panic mode: its should_sync flag is not set, no
\* token is discarded after it and parsing goes on where the parser stands.
C14_LocalErrorsKeepPosition ==
    [][(ParseErrorStep /\ NewParseError.message \in LocalErrors) =>
           /\ ~NewParseError.should_sync
           /\ parser'.tokens = TokensAtError]_vars

(***************************************************************************)
(* The bytecode back-end.                                                  *)
(***************************************************************************)
\* the instructions of the rows of the listing
ListingOps == [i \in DOMAIN listing |-> listing[i].op]

\* the bytes of a sequence of instructions
RECURSIVE Encoded(_)
Encoded(ops) == IF ops = <<>> THEN <<>> ELSE encode(Head(ops)) \o Encoded(Tail(ops))

\* C15: decoding the bytes that encode an opcode yields that opcode and
\* consumes exactly those bytes, for every opcode written; the code of a
\* chunk is the encoding of the instructions written to it, in order; the
\* disassembler, decoding from offset 0 to the end, lists exactly those
\* instructions, each at the offset where its bytes begin; and the
\* instructions the machine has decoded are the first ones written, all of
\* them once its cursor is at the end, never a decode error.
C15_RoundTrip ==
    /\ \A i \in DOMAIN emitted :
          decode(encode(emitted[i])) = DecodeOk(emitted[i], Len(encode(emitted[i])))
    /\ chunk.code = Encoded(emitted)
    /\ (listing # <<>> /\ exit_code = Running) =>
          /\ ListingOps = emitted
          /\ \A i \in DOMAIN listing :
                listing[i].offset = Len(Encoded(SubSeq(emitted, 1, i - 1)))
    /\ vm.state # "DecodeErr"
    /\ Len(vm.trace) <= Len(emitted)
    /\ vm.trace = SubSeq(emitted, 1, Len(vm.trace))
    /\ vm.cursor = Len(Encoded(vm.trace))
    /\ vm.cursor = Len(chunk.code) => vm.trace = emitted

\* C15 witness: two constants and a subtraction were written, listed and run
C15_ListedAndRun ==
    /\ emitted = <<Constant(0), Constant(1), Sub>>
    /\ chunk.code = <<2, 0, 2, 1, 5>>
    /\ ListingOps = emitted
    /\ vm.trace = emitted
    /\ vm.state = "Ok"

\* the runs of the line table that cover a byte offset
RunsCovering(offset) ==
    {i \in DOMAIN chunk.lines : chunk.lines[i].start <= offset /\ offset < chunk.lines[i].end}

\* C16: whatever instructions were written to the chunk, with or without a
\* line, every byte of its code is covered by exactly one run of the line
\* table.
C16_LineTableCovers ==
    \A offset \in 0..(Len(chunk.code) - 1) : Cardinality(RunsCovering(offset)) = 1

\* what the code keeps: the runs are not empty, follow one another without
\* overlap and end within the code, so no byte has two runs; the bytes of
\* instructions written without a line may have none
LineTableAsCoded ==
    /\ \A i \in DOMAIN chunk.lines :
          /\ chunk.lines[i].start < chunk.lines[i].end
          /\ chunk.lines[i].end <= Len(chunk.code)
          /\ i > 1 => chunk.lines[i - 1].end <= chunk.lines[i].start
    /\ \A offset \in 0..(Len(chunk.code) - 1) : Cardinality(RunsCovering(offset)) <= 1

\* a turn of the run that decoded an instruction and executed it without a panic
Executed == Len(vm'.trace) = Len(vm.trace) + 1 /\ vm'.state # "panic"

\* the instruction that turn decoded
ExecutedOp == vm'.trace[Len(vm'.trace)]

\* a op b in f64 arithmetic
Arith(op, a, b) ==
    CASE op = "Add" -> f64_add(a, b)
      [] op = "Sub" -> f64_sub(a, b)
      [] op = "Mul" -> f64_mul(a, b)
      [] op = "Div" -> f64_div(a, b)

\* the stack below its top n values
Below(stack, n) == SubSeq(stack, 1, Len(stack) - n)

\* C17: Add, Sub, Mul and Div replace the two topmost values, a pushed
\* before b, by a op b, which lowers the depth by one and leaves the rest
\* of the stack alone; Constant raises the depth by one; Neg and NoOp keep
\* it, NoOp keeping the stack and Neg negating the top.  Two constants x
\* and y followed by Sub leave x - y.
C17_StackEffects ==
    /\ [][Executed =>
            CASE ExecutedOp.op \in {"Add", "Sub", "Mul", "Div"} ->
                    /\ Len(vm.stack) >= 2
                    /\ vm'.stack = Append(Below(vm.stack, 2),
                                          Arith(ExecutedOp.op, vm.stack[Len(vm.stack) - 1],
                                                vm.stack[Len(vm.stack)]))
                    /\ Len(vm'.stack) = Len(vm.stack) - 1
              [] ExecutedOp.op = "Constant" ->
                    /\ Len(vm'.stack) = Len(vm.stack) + 1
                    /\ Below(vm'.stack, 1) = vm.stack
              [] ExecutedOp.op = "Neg" ->
                    /\ Len(vm'.stack) = Len(vm.stack)
                    /\ vm'.stack = Append(Below(vm.stack, 1), f64_neg(vm.stack[Len(vm.stack)]))
              [] ExecutedOp.op = "NoOp" -> vm'.stack = vm.stack
              [] OTHER -> TRUE]_vars
    /\ [](vm.trace = <<Constant(0), Constant(1), Sub>> =>
            vm.stack = <<f64_sub(chunk.constants[1], chunk.constants[2])>>)

\* C17 witness: 3 and 2 were pushed in this order and Sub left 1
C17_ThreeMinusTwo ==
    /\ vm.trace = <<Constant(0), Constant(1), Sub>>
    /\ chunk.constants = <<Num(3, 1), Num(2, 1)>>
    /\ vm.stack = <<Num(1, 1)>>

\* a turn of the run that decoded an instruction
Decoded == Len(vm'.trace) = Len(vm.trace) + 1

\* the values an instruction takes from the stack
Needs(opcode) ==
    CASE opcode.op \in {"Add", "Sub", "Mul", "Div"} -> 2
      [] opcode.op \in {"Neg", "Return"} -> 1
      [] OTHER -> 0

\* the run is over
Halted == vm.state \in {"Ok", "panic"}

C19_PoolOf256 ==
    /\ Len(chunk.constants) <= U8Max + 1
    /\ \A value \in Values :
          Len(chunk.constants) < U8Max + 1 =>
             /\ ~add_constant(chunk, value).panic
             /\ add_constant(chunk, value).addr = Len(chunk.constants)
             /\ add_constant(chunk, value).addr \in 0..U8Max
             /\ Len(add_constant(chunk, value).chunk.constants) = Len(chunk.constants) + 1
             /\ constant(add_constant(chunk, value).chunk, add_constant(chunk, value).addr) = value
             /\ run_op(VirtualMachineDefault, add_constant(chunk, value).chunk,
                       Constant(add_constant(chunk, value).addr)).stack = <<value>>

\* what the code does: the same with a pool of at most 255 constants,
\* indexes 0..254, and a panic when a constant is added to a pool of 255
PoolAsCoded ==
    /\ Len(chunk.constants) <= U8Max
    /\ \A value \in Values :
          /\ Len(chunk.constants) = U8Max => add_constant(chunk, value).panic
          /\ Len(chunk.constants) < U8Max =>
                /\ ~add_constant(chunk, value).panic
                /\ add_constant(chunk, value).addr = Len(chunk.constants)
                /\ constant(add_constant(chunk, value).chunk, add_constant(chunk, value).addr) = value
                /\ run_op(VirtualMachineDefault, add_constant(chunk, value).chunk,
                          Constant(add_constant(chunk, value).addr)).stack = <<value>>

(***************************************************************************)
(* The process.                                                            *)
(***************************************************************************)
\* C20: a process that ended without a panic exits with 0 when main
\* succeeded and otherwise with the code of its error: 64 for a usage
\* error, 65 for lexing or parsing errors, 70 for a runtime error, 1 for
\* any other.
C20_ExitCodes ==
    (exit_code # Running /\ scan_state # "panic") =>
        exit_code = IF run_state \in {"Ok", "eof"} THEN 0 ELSE Error_report(run_state)

\* what the code does: 0 when main succeeded, 1 for every error main
\* returns, whatever its kind
ExitAsCoded ==
    (exit_code # Running /\ scan_state # "panic") =>
        exit_code = IF run_state \in {"Ok", "eof"} THEN 0 ELSE 1

(***************************************************************************)
(* Expressions and statements of the tree-walk evaluator.                  *)
(***************************************************************************)
\* nil and false
Falsy(v) == v \in {ObjNil, ObjBool(FALSE)}

\* the left operand decides the logical expression
Skips(op, v) == IF op = "and" THEN Falsy(v) ELSE ~Falsy(v)

NumHolds(op, x, y) ==
    CASE op = "<" -> x.n * y.d < y.n * x.d
      [] op = "<=" -> x.n * y.d <= y.n * x.d
      [] op = ">" -> x.n * y.d > y.n * x.d
      [] op = ">=" -> x.n * y.d >= y.n * x.d

\* C22: `a op b` with op among < <= > >= never fails; it is the ordering of
\* a and b when both are Numbers and false for every other pair of operands.
C22_OrderingOnNumbersOnly ==
    \A op \in CmpOps, a \in CmpOperands, b \in CmpOperands :
        source = CmpSrc(op, a.text, b.text) =>
            /\ run_state \notin {"LexErr", "ParseErr", "RuntimeErr", "abort"}
            /\ run_state = "Ok" =>
                  interpreter.out =
                      <<ObjBool(IF a.v.t = "num" /\ b.v.t = "num" THEN NumHolds(op, a.v, b.v) ELSE FALSE)>>

\* the order of two strings of one character each, by their bytes
StrHolds(op, x, y) ==
    CASE op = "<" -> CharCode(x.s) < CharCode(y.s)
      [] op = "<=" -> CharCode(x.s) <= CharCode(y.s)
      [] op = ">" -> CharCode(x.s) > CharCode(y.s)
      [] op = ">=" -> CharCode(x.s) >= CharCode(y.s)

\* what the code does: two Numbers, two Strings and two Booleans are
\* ordered (Strings by their bytes, false before true); nil and operands of
\* different types give false
OrderingAsCoded ==
    \A op \in CmpOps, a \in CmpOperands, b \in CmpOperands :
        source = CmpSrc(op, a.text, b.text) =>
            /\ run_state \notin {"LexErr", "ParseErr", "RuntimeErr", "abort"}
            /\ run_state = "Ok" =>
                  interpreter.out =
                      <<ObjBool(CASE a.v.t # b.v.t -> FALSE
                                  [] a.v.t = "num" -> NumHolds(op, a.v, b.v)
                                  [] a.v.t = "bool" -> NumHolds(op, Num(a.v.n, 1), Num(b.v.n, 1))
                                  [] a.v.t = "str" -> StrHolds(op, a.v, b.v)
                                  [] OTHER -> FALSE)>>

\* what n arguments have recorded once all were evaluated
RECURSIVE Seen(_)
Seen(n) == IF n = 0 THEN "" ELSE Seen(n - 1) \o ToString(n)

Names(frame) == DOMAIN frame.value

Refs(name) ==
    {id \in DOMAIN ast_arena.expressions :
        /\ ast_arena.expressions[id].k \in {"Variable", "Assign"}
        /\ ast_arena.expressions[id].name = name}

\* the resolver has run
Resolved == run_state \in {"interpret", "Ok", "RuntimeErr"}

\* the depth of level l counted from the innermost level
DepthOf(l) == Cardinality(Levels) - 1 - l

\* the innermost of the levels D
Nearest(D) == CHOOSE l \in D : \A m \in D : m <= l

\* C27 as stated: the depth recorded for a reference is that of the first
\* scope containing the name on a walk from the outermost scope inwards.
C27_OutermostFirst ==
    \A D \in SUBSET Levels \ {{}}, ref \in References :
        (source = ScopeSrc(D, ref) /\ Resolved) =>
            \A id \in Refs("a") :
                id \in DOMAIN var_resolution /\ var_resolution[id] = DepthOf(Min(D))

\* C27 amended: for every Variable and Assign expression the resolver records
\* the depth, counted from the innermost scope, of the first scope
\* containing the name on a walk from the innermost scope outwards; the
\* evaluator then reads or writes the variable of that scope.
C27_InnermostFirst ==
    \A D \in SUBSET Levels \ {{}}, ref \in References :
        (source = ScopeSrc(D, ref) /\ Resolved) =>
            /\ Refs("a") # {}
            /\ \A id \in Refs("a") :
                  id \in DOMAIN var_resolution /\ var_resolution[id] = DepthOf(Nearest(D))
            /\ run_state # "RuntimeErr"
            /\ run_state = "Ok" =>
                  interpreter.out = IF ref = "print a;" THEN <<Num(Nearest(D), 1)>> ELSE <<>>

\* C27 witness: a is declared at all three levels and the read in the inner
\* block was resolved to the inner block and has printed its value
C27_ShadowedTwice ==
    /\ source = ScopeSrc(Levels, "print a;")
    /\ run_state = "Ok"
    /\ \E id \in Refs("a") : var_resolution[id] = 0
    /\ interpreter.out = <<Num(2, 1)>>

ParseTurn == run_state = "parse" /\ run_state' = "parse" /\ parsevars' # parsevars

\* C29: Parser::parse terminates.  Every turn of its declaration loop takes
\* at least one token from the tokens left and adds either one statement or
\* one error, so that the turns taken and the tokens left never exceed the
\* tokens parse was given; and parse returns only when no token is left, with
\* all the statements when there was no error and with the errors, at least
\* one, otherwise.
C29_ParseTerminates ==
    /\ [][ParseTurn =>
            (/\ Len(parser'.tokens) < Len(parser.tokens)
             /\ \/ parse_stmts' # parse_stmts /\ Len(parse_stmts') = Len(parse_stmts) + 1
                                               /\ parse_errs' = parse_errs
                \/ parse_stmts' = parse_stmts /\ Len(parse_errs') = Len(parse_errs) + 1)]_vars
    /\ [][(run_state = "parse" /\ run_state' # "parse") =>
            (/\ parser.tokens = <<>>
             /\ parse_stmts' = parse_stmts /\ parse_errs' = parse_errs
             /\ IF parse_errs = <<>>
                THEN run_state' = "interpret" /\ program' = parse_stmts
                ELSE run_state' = "ParseErr" /\ reported' = parse_errs)]_vars
    /\ [](run_state = "parse" =>
            Len(parse_stmts) + Len(parse_errs) + Len(parser.tokens) <= Len(tokens) - 1)

\* C29 witness: parse has returned three errors for the stray closers, each
\* turn having taken tokens, and no token is left
C29_StrayClosers ==
    /\ source = SrcStray
    /\ run_state = "ParseErr"
    /\ parser.tokens = <<>>
    /\ Len(parse_errs) >= 2
    /\ parse_stmts # <<>>

(***************************************************************************)
(* Equality of functions                                                   *)
(***************************************************************************)
\* what the claim says of a == b for a user function a
SameFunction(a, b) == b.name # "" /\ a.name = b.name

\* what a program comparing a with every operand prints
RECURSIVE FunEqOut(_, _)
FunEqOut(a, i) ==
    IF i > Len(AllOperands) THEN <<>>
    ELSE <<ObjBool(SameFunction(a, AllOperands[i])), ObjBool(SameFunction(a, AllOperands[i])),
           ObjBool(~SameFunction(a, AllOperands[i]))>> \o FunEqOut(a, i + 1)

\* C30: two user functions are equal under == exactly when their declared
\* names are equal, whatever their parameters, bodies and environments, in
\* either order of the operands, and != is the negation; a user function is
\* equal to no nil, boolean, number, string (its own name included) or
\* native function.
C30_FunctionsEqualByName ==
    \A a \in FunOperands :
        source = FunEqSrc(a.text) =>
            /\ run_state \notin {"LexErr", "ParseErr", "RuntimeErr", "abort"}
            /\ run_state = "Ok" => interpreter.out = FunEqOut(a, 1)

\* C30 witness: f was compared with g, with the other function named f,
\* with h and with the values of other types
C30_NamesakesEqual ==
    /\ source = FunEqSrc("f")
    /\ run_state = "Ok"
    /\ Global("k").t = "fun" /\ Global("f").t = "fun" /\ Global("k") # Global("f")
    /\ SubSeq(interpreter.out, 7, 12) =
           <<ObjBool(TRUE), ObjBool(TRUE), ObjBool(FALSE), ObjBool(FALSE), ObjBool(FALSE), ObjBool(TRUE)>>

====
